---- MODULE Spec2Model ----
(***************************************************************************)
(* The feature-detection engine of the browser-support tool,               *)
(* src/src/app/lib/analyzer.ts: analyzeCode(code) checks the text for a    *)
(* hashbang, hands it to the Babel parser, visits the nodes of the tree,   *)
(* records feature keys and evidence, and aggregates the catalogue         *)
(* entries of the recorded keys into an AnalysisResult.                    *)
(*                                                                         *)
(* The Babel parser and traverser are external.  An input is a source text *)
(* together with the parser's answer for it: either a diagnostic message   *)
(* or the tree, given as the nodes in the order traverse() enters them.    *)
(* Only nodes for which analyzeCode registers a visitor are listed, plus   *)
(* ClassMethod, a function-like node for which it registers none.          *)
(* Strings are TLA+ strings; offsets are 0-based as in JavaScript.         *)
(*                                                                         *)
(* The page, src/src/app/page.tsx, keeps the text typed, the last result,  *)
(* a loading flag and an error message, and calls analyzeCode from its     *)
(* handler handleAnalyze.                                                  *)
(***************************************************************************)
EXTENDS Integers, Sequences, FiniteSets, TLC

\* The longest program of the model, in statements (fragments).
MaxStmts == 2

\* The longest text extractSnippet is called on by itself, in lines.
MaxLines == 6

VARIABLES
  input,             \* per call: the argument `code` and the parser's answer
  pc,                \* per call: the position of analyzeCode
  ast,               \* per call: the nodes traverse() will enter, in order
  pos,               \* per call: how many nodes have been visited
  detectedFeatures,  \* per call: Set<string>, in insertion order
  featureSnippets,   \* per call: Map<string, Set<CodeSnippet>>
  result,            \* per call: the AnalysisResult the promise resolves to
  error,             \* per call: the message of the Error it rejects with
  home               \* the state of the page: code, analysis, loading, error

vars ==
  <<input, pc, ast, pos, detectedFeatures, featureSnippets, result, error,
    home>>

\* The value of a variable that holds nothing yet.
None == [none |-> TRUE]

----------------------------------------------------------------------------
(* The feature catalogue.  description and notes are display text that is  *)
(* copied through unchanged and is left out.                               *)

FeatureSupport(feature, chrome, firefox, safari, edge, ie) ==
  [feature |-> feature,
   support |-> [chrome |-> chrome, firefox |-> firefox, safari |-> safari,
                edge |-> edge, ie |-> ie]]

featureMap ==
  "arrow-function" :> FeatureSupport("Arrow Functions", "45+", "22+", "10+", "12+", "No") @@
  "const-declaration" :> FeatureSupport("Const Declaration", "49+", "36+", "10+", "12+", "11*") @@
  "let-declaration" :> FeatureSupport("Let Declaration", "49+", "44+", "10+", "12+", "11*") @@
  "template-literal" :> FeatureSupport("Template Literals", "41+", "34+", "9+", "12+", "No") @@
  "destructuring" :> FeatureSupport("Destructuring Assignment", "49+", "41+", "8+", "14+", "No") @@
  "spread-operator" :> FeatureSupport("Spread Operator", "46+", "16+", "10+", "12+", "No") @@
  "async-await" :> FeatureSupport("Async/Await", "55+", "52+", "10.1+", "14+", "No") @@
  "promise" :> FeatureSupport("Promises", "32+", "29+", "7.1+", "12+", "No") @@
  "class-declaration" :> FeatureSupport("Classes", "49+", "45+", "9+", "13+", "No") @@
  "for-of" :> FeatureSupport("For...of Loop", "38+", "13+", "7+", "12+", "No") @@
  "optional-chaining" :> FeatureSupport("Optional Chaining", "80+", "72+", "13.1+", "80+", "No") @@
  "nullish-coalescing" :> FeatureSupport("Nullish Coalescing", "80+", "72+", "13.1+", "80+", "No") @@
  "map-object" :> FeatureSupport("Map Object", "38+", "13+", "7.1+", "12+", "11+") @@
  "set-object" :> FeatureSupport("Set Object", "38+", "13+", "7.1+", "12+", "11+") @@
  "symbol" :> FeatureSupport("Symbol", "38+", "36+", "9+", "12+", "No") @@
  "default-parameters" :> FeatureSupport("Default Parameters", "49+", "15+", "10+", "14+", "No") @@
  "rest-parameters" :> FeatureSupport("Rest Parameters", "47+", "15+", "10+", "12+", "No") @@
  "computed-property" :> FeatureSupport("Computed Property Names", "47+", "34+", "8+", "12+", "No") @@
  "shorthand-property" :> FeatureSupport("Shorthand Properties", "43+", "33+", "9+", "12+", "No") @@
  "method-definition" :> FeatureSupport("Method Definitions", "39+", "34+", "9+", "12+", "No") @@
  "generator-function" :> FeatureSupport("Generator Functions", "39+", "26+", "10+", "13+", "No") @@
  "import-statement" :> FeatureSupport("ES6 Modules (import)", "61+", "60+", "10.1+", "16+", "No") @@
  "export-statement" :> FeatureSupport("ES6 Modules (export)", "61+", "60+", "10.1+", "16+", "No") @@
  "dynamic-import" :> FeatureSupport("Dynamic Import", "63+", "67+", "11.1+", "79+", "No") @@
  "array-from" :> FeatureSupport("Array.from()", "45+", "32+", "9+", "12+", "No") @@
  "array-find" :> FeatureSupport("Array.find()", "45+", "25+", "7.1+", "12+", "No") @@
  "array-findindex" :> FeatureSupport("Array.findIndex()", "45+", "25+", "7.1+", "12+", "No") @@
  "array-includes" :> FeatureSupport("Array.includes()", "47+", "43+", "9+", "14+", "No") @@
  "array-flat" :> FeatureSupport("Array.flat()", "69+", "62+", "12+", "79+", "No") @@
  "array-flatmap" :> FeatureSupport("Array.flatMap()", "69+", "62+", "12+", "79+", "No") @@
  "object-assign" :> FeatureSupport("Object.assign()", "45+", "34+", "9+", "12+", "No") @@
  "object-keys" :> FeatureSupport("Object.keys()", "5+", "4+", "5+", "12+", "9+") @@
  "object-values" :> FeatureSupport("Object.values()", "54+", "47+", "10.1+", "14+", "No") @@
  "object-entries" :> FeatureSupport("Object.entries()", "54+", "47+", "10.1+", "14+", "No") @@
  "object-fromentries" :> FeatureSupport("Object.fromEntries()", "73+", "63+", "12.1+", "79+", "No") @@
  "string-includes" :> FeatureSupport("String.includes()", "41+", "40+", "9+", "12+", "No") @@
  "string-startswith" :> FeatureSupport("String.startsWith()", "41+", "17+", "9+", "12+", "No") @@
  "string-endswith" :> FeatureSupport("String.endsWith()", "41+", "17+", "9+", "12+", "No") @@
  "string-repeat" :> FeatureSupport("String.repeat()", "41+", "24+", "9+", "12+", "No") @@
  "string-padstart" :> FeatureSupport("String.padStart()", "57+", "48+", "10+", "15+", "No") @@
  "string-padend" :> FeatureSupport("String.padEnd()", "57+", "48+", "10+", "15+", "No") @@
  "weakmap" :> FeatureSupport("WeakMap", "36+", "6+", "7.1+", "12+", "11+") @@
  "weakset" :> FeatureSupport("WeakSet", "36+", "34+", "9+", "12+", "No") @@
  "proxy" :> FeatureSupport("Proxy", "49+", "18+", "10+", "12+", "No") @@
  "reflect" :> FeatureSupport("Reflect", "49+", "42+", "10+", "12+", "No") @@
  "bigint" :> FeatureSupport("BigInt", "67+", "68+", "14+", "79+", "No") @@
  "private-fields" :> FeatureSupport("Private Class Fields", "74+", "90+", "14.1+", "79+", "No") @@
  "static-class-fields" :> FeatureSupport("Static Class Fields", "72+", "75+", "14.1+", "79+", "No") @@
  "logical-assignment" :> FeatureSupport("Logical Assignment", "85+", "79+", "14+", "85+", "No") @@
  "numeric-separators" :> FeatureSupport("Numeric Separators", "75+", "70+", "13+", "79+", "No") @@
  "top-level-await" :> FeatureSupport("Top-level Await", "89+", "89+", "15+", "89+", "No") @@
  "regex-named-groups" :> FeatureSupport("RegExp Named Capture Groups", "64+", "78+", "11.1+", "79+", "No") @@
  "regex-lookbehind" :> FeatureSupport("RegExp Lookbehind Assertions", "62+", "78+", "16.4+", "79+", "No") @@
  "regex-unicode-property" :> FeatureSupport("RegExp Unicode Property Escapes", "64+", "78+", "11.1+", "79+", "No") @@
  "regex-s-flag" :> FeatureSupport("RegExp dotAll Flag", "62+", "78+", "11.1+", "79+", "No") @@
  "globalthis" :> FeatureSupport("globalThis", "71+", "65+", "12.1+", "79+", "No") @@
  "import-meta" :> FeatureSupport("import.meta", "64+", "62+", "11.1+", "79+", "No") @@
  "array-at" :> FeatureSupport("Array.at()", "92+", "90+", "15.4+", "92+", "No") @@
  "string-at" :> FeatureSupport("String.at()", "92+", "90+", "15.4+", "92+", "No") @@
  "string-replaceall" :> FeatureSupport("String.replaceAll()", "85+", "77+", "13.1+", "85+", "No") @@
  "promise-allsettled" :> FeatureSupport("Promise.allSettled()", "76+", "71+", "13+", "79+", "No") @@
  "promise-any" :> FeatureSupport("Promise.any()", "85+", "79+", "14+", "85+", "No") @@
  "intl-relativetimeformat" :> FeatureSupport("Intl.RelativeTimeFormat", "71+", "65+", "14+", "79+", "No") @@
  "intl-listformat" :> FeatureSupport("Intl.ListFormat", "72+", "78+", "14.1+", "79+", "No") @@
  "finalizationregistry" :> FeatureSupport("FinalizationRegistry", "84+", "79+", "14.1+", "84+", "No") @@
  "weakref" :> FeatureSupport("WeakRef", "84+", "79+", "14.1+", "84+", "No") @@
  "private-methods" :> FeatureSupport("Private Class Methods", "84+", "90+", "15+", "84+", "No") @@
  "array-findlast" :> FeatureSupport("Array.findLast()", "97+", "104+", "15.4+", "97+", "No") @@
  "array-findlastindex" :> FeatureSupport("Array.findLastIndex()", "97+", "104+", "15.4+", "97+", "No") @@
  "structuredclone" :> FeatureSupport("structuredClone()", "98+", "94+", "15.4+", "98+", "No") @@
  "string-matchall" :> FeatureSupport("String.matchAll()", "73+", "67+", "13+", "79+", "No") @@
  "array-toreversed" :> FeatureSupport("Array.toReversed()", "110+", "115+", "16+", "110+", "No") @@
  "array-tosorted" :> FeatureSupport("Array.toSorted()", "110+", "115+", "16+", "110+", "No") @@
  "array-tospliced" :> FeatureSupport("Array.toSpliced()", "110+", "115+", "16+", "110+", "No") @@
  "array-with" :> FeatureSupport("Array.with()", "110+", "115+", "16+", "110+", "No") @@
  "string-trimstart" :> FeatureSupport("String.trimStart()", "66+", "61+", "12+", "79+", "No") @@
  "string-trimend" :> FeatureSupport("String.trimEnd()", "66+", "61+", "12+", "79+", "No") @@
  "object-hasown" :> FeatureSupport("Object.hasOwn()", "93+", "92+", "15.4+", "93+", "No") @@
  "object-groupby" :> FeatureSupport("Object.groupBy()", "117+", "119+", "17+", "117+", "No") @@
  "json-parse-reviver" :> FeatureSupport("JSON.parse() with source", "105+", "No", "16+", "105+", "No") @@
  "temporal" :> FeatureSupport("Temporal API", "No*", "No*", "No*", "No*", "No") @@
  "decorators" :> FeatureSupport("Decorators", "120+", "No*", "No*", "120+", "No") @@
  "iterator-helpers" :> FeatureSupport("Iterator Helpers", "122+", "No*", "No*", "122+", "No") @@
  "atomics" :> FeatureSupport("Atomics", "68+", "78+", "15.2+", "79+", "No") @@
  "sharedarraybuffer" :> FeatureSupport("SharedArrayBuffer", "68+", "79+", "15.2+", "79+", "No") @@
  "bigint64array" :> FeatureSupport("BigInt64Array", "67+", "68+", "15+", "79+", "No") @@
  "biguint64array" :> FeatureSupport("BigUint64Array", "67+", "68+", "15+", "79+", "No") @@
  "error-cause" :> FeatureSupport("Error.cause", "93+", "91+", "15+", "93+", "No") @@
  "aggregate-error" :> FeatureSupport("AggregateError", "85+", "79+", "14+", "85+", "No") @@
  "regex-match-indices" :> FeatureSupport("RegExp Match Indices", "90+", "88+", "15+", "90+", "No") @@
  "hashbang" :> FeatureSupport("Hashbang Grammar", "74+", "67+", "13.1+", "79+", "No") @@
  "import-assertions" :> FeatureSupport("Import Assertions", "91+", "No*", "No*", "91+", "No") @@
  "import-attributes" :> FeatureSupport("Import Attributes", "123+", "No*", "No*", "123+", "No") @@
  "resizable-arraybuffer" :> FeatureSupport("Resizable ArrayBuffer", "111+", "No*", "16.4+", "111+", "No") @@
  "async-iteration" :> FeatureSupport("Async Iteration", "63+", "57+", "11.1+", "79+", "No") @@
  "regex-v-flag" :> FeatureSupport("RegExp v Flag", "112+", "116+", "17+", "112+", "No") @@
  "fetch-api" :> FeatureSupport("Fetch API", "42+", "39+", "10.1+", "14+", "No") @@
  "urlsearchparams" :> FeatureSupport("URLSearchParams", "49+", "29+", "10.1+", "17+", "No") @@
  "url-constructor" :> FeatureSupport("URL Constructor", "32+", "26+", "7+", "12+", "No") @@
  "abortcontroller" :> FeatureSupport("AbortController", "66+", "57+", "11.1+", "16+", "No") @@
  "intersectionobserver" :> FeatureSupport("IntersectionObserver", "51+", "55+", "12.1+", "15+", "No") @@
  "mutationobserver" :> FeatureSupport("MutationObserver", "26+", "14+", "7+", "12+", "11+") @@
  "resizeobserver" :> FeatureSupport("ResizeObserver", "64+", "69+", "13.1+", "79+", "No") @@
  "array-fromasync" :> FeatureSupport("Array.fromAsync()", "121+", "119+", "16.4+", "121+", "No") @@
  "string-iswellformed" :> FeatureSupport("String.isWellFormed()", "111+", "119+", "16.4+", "111+", "No") @@
  "string-towellformed" :> FeatureSupport("String.toWellFormed()", "111+", "119+", "16.4+", "111+", "No") @@
  "performance-now" :> FeatureSupport("performance.now()", "24+", "15+", "8+", "12+", "10+") @@
  "queuemicrotask" :> FeatureSupport("queueMicrotask()", "71+", "69+", "12.1+", "79+", "No") @@
  "crypto-getrandomvalues" :> FeatureSupport("crypto.getRandomValues()", "11+", "26+", "6.1+", "12+", "11+") @@
  "crypto-randomuuid" :> FeatureSupport("crypto.randomUUID()", "92+", "95+", "15.4+", "92+", "No") @@
  "typedarray-at" :> FeatureSupport("TypedArray.at()", "92+", "90+", "15.4+", "92+", "No") @@
  "typedarray-with" :> FeatureSupport("TypedArray.with()", "110+", "115+", "16+", "110+", "No") @@
  "localstorage" :> FeatureSupport("localStorage", "4+", "3.5+", "4+", "12+", "8+") @@
  "sessionstorage" :> FeatureSupport("sessionStorage", "5+", "2+", "4+", "12+", "8+") @@
  "indexeddb" :> FeatureSupport("IndexedDB", "24+", "16+", "7+", "12+", "10+") @@
  "reporterror" :> FeatureSupport("reportError()", "95+", "93+", "15.4+", "95+", "No")

FeatureKeys == DOMAIN featureMap

----------------------------------------------------------------------------
(* JavaScript strings and collections.                                     *)

Min(a, b) == IF a < b THEN a ELSE b
Max(a, b) == IF a > b THEN a ELSE b

\* s.startsWith(p)
startsWith(s, p) == Len(s) >= Len(p) /\ SubSeq(s, 1, Len(p)) = p

\* s.includes(sub)
includes(s, sub) ==
  \E i \in 1..(Len(s) - Len(sub) + 1) : SubSeq(s, i, i + Len(sub) - 1) = sub

\* A slice that runs to the end of the string.
sliceToEnd(s, from, to) == SubSeq(s, Min(from, Len(s)) + 1, Len(s))

\* s.slice(from, to) for 0 <= from, 0 <= to
slice(s, from, to) == SubSeq(s, Min(from, Len(s)) + 1, Min(to, Len(s)))

\* s.split('\n')
split(s) ==
  LET nl == {i \in 1..Len(s) : SubSeq(s, i, i) = "\n"}
      at(k) == IF k = 0 THEN 0
               ELSE IF k = Cardinality(nl) + 1 THEN Len(s) + 1
               ELSE CHOOSE i \in nl : Cardinality({j \in nl : j < i}) = k - 1
  IN [k \in 1..(Cardinality(nl) + 1) |-> SubSeq(s, at(k - 1) + 1, at(k) - 1)]

\* lines.join('\n')
RECURSIVE join(_)
join(lines) ==
  IF Len(lines) = 0 THEN ""
  ELSE IF Len(lines) = 1 THEN lines[1]
  ELSE lines[1] \o "\n" \o join(Tail(lines))

\* A slice that takes the element at index `to` as well.
arraySliceInclusive(a, from, to) ==
  SubSeq(a, Min(from, Len(a)) + 1, Min(to + 1, Len(a)))

\* array.slice(from, to) for 0 <= from, 0 <= to
arraySlice(a, from, to) == SubSeq(a, Min(from, Len(a)) + 1, Min(to, Len(a)))

\* An add that moves a key already present to the end.
SetAddLast(set, key) ==
  Append(SelectSeq(set, LAMBDA k : k # key), key)

\* Set<string>.add: a Set keeps insertion order and holds a string once.
SetAdd(set, key) ==
  IF \E i \in 1..Len(set) : set[i] = key THEN set ELSE Append(set, key)

\* Set<CodeSnippet>.add: objects are members by reference, and the snippet
\* added is the object literal extractSnippet has just created, so it is never
\* a member yet.
SnippetSetAdd(set, snippet) == Append(set, snippet)

----------------------------------------------------------------------------
(* extractSnippet and addFeature, the helpers closed over `code`.          *)

\* The loop with a line's length taken without its newline.
RECURSIVE FindLinesNoNewline(_, _, _, _, _)
FindLinesNoNewline(lines, start, end, i, st) ==
  IF i >= Len(lines) THEN st
  ELSE
    LET lineLength == Len(lines[i + 1])
        st1 == IF st.currentPos + lineLength > start /\ st.startLine = 0
               THEN [st EXCEPT !.startLine = i + 1,
                               !.startCol = start - st.currentPos]
               ELSE st
    IN IF st1.currentPos + lineLength > end /\ st1.endLine = 0
       THEN [st1 EXCEPT !.endLine = i + 1]
       ELSE FindLinesNoNewline(lines, start, end, i + 1,
                               [st1 EXCEPT !.currentPos = @ + lineLength])

\* The for loop of extractSnippet from iteration i on; st holds its locals.
RECURSIVE FindLines(_, _, _, _, _)
FindLines(lines, start, end, i, st) ==
  IF i >= Len(lines) THEN st
  ELSE
    LET lineLength == Len(lines[i + 1]) + 1
        st1 == IF st.currentPos + lineLength > start /\ st.startLine = 0
               THEN [st EXCEPT !.startLine = i + 1,
                               !.startCol = start - st.currentPos]
               ELSE st
    IN IF st1.currentPos + lineLength > end /\ st1.endLine = 0
       THEN [st1 EXCEPT !.endLine = i + 1]
       ELSE FindLines(lines, start, end, i + 1,
                      [st1 EXCEPT !.currentPos = @ + lineLength])

extractSnippet(code, start, end) ==
  LET lines == split(code)
      st == FindLines(lines, start, end, 0,
                      [currentPos |-> 0, startLine |-> 0, endLine |-> 0,
                       startCol |-> 0])
      contextStart == Max(0, st.startLine - 3)
      contextEnd == Min(Len(lines), st.endLine + 2)
      contextLines == arraySlice(lines, contextStart, contextEnd)
  IN [text |-> join(contextLines),
      startLine |-> contextStart + 1,
      matchLine |-> st.startLine,
      matchCol |-> st.startCol,
      matchLength |-> end - start,
      matchText |-> slice(code, start, end)]

\* The two accumulators of one call, as the helpers and visitors update them.
Acc(detected, snippets) ==
  [detectedFeatures |-> detected, featureSnippets |-> snippets]

\* featureSnippets.get(key), with the empty Set for a key that has no entry.
SnippetsOf(snippets, key) ==
  IF key \in DOMAIN snippets THEN snippets[key] ELSE <<>>

\* detectedFeatures.add(featureKey), the only statement of the visitors that
\* record a key without evidence.
addKey(acc, featureKey) ==
  [acc EXCEPT !.detectedFeatures = SetAdd(@, featureKey)]

\* addFeature(featureKey, start, end); every caller passes numbers.
addFeature(acc, code, featureKey, start, end) ==
  LET snippet == extractSnippet(code, start, end)
      old == acc.featureSnippets
      new == (featureKey :> SnippetSetAdd(SnippetsOf(old, featureKey), snippet))
               @@ old
  IN [detectedFeatures |-> SetAdd(acc.detectedFeatures, featureKey),
      featureSnippets |-> new]

\* if (cond) addFeature(featureKey, path.node.start, path.node.end)
addIf(cond, acc, code, featureKey, node) ==
  IF cond THEN addFeature(acc, code, featureKey, node.start, node.end) ELSE acc

\* A run of such statements in source order; rules is <<cond, key>> pairs.
\* The statements whose condition is false do nothing and are skipped at
\* once; the test on acc has TLC evaluate the accumulators statement by
\* statement instead of nesting the evaluation of them all.
RECURSIVE addEach(_, _, _, _)
addEach(acc, code, node, rules) ==
  LET matched == SelectSeq(rules, LAMBDA rule : rule[1])
  IN IF matched = <<>> \/ Len(acc.detectedFeatures) < 0 THEN acc
     ELSE addEach(addIf(matched[1][1], acc, code, matched[1][2], node),
                  code, node, Tail(matched))

----------------------------------------------------------------------------
(* The syntax tree, as far as the visitors read it.                        *)

NoProps == [extra |-> None]

\* A node of the tree: its type, its offset span and the fields its visitor
\* reads.
Node(type, start, end, props) ==
  props @@ [type |-> type, start |-> start, end |-> end]

Ident(name) == [type |-> "Identifier", name |-> name]

Member(object, property) ==
  [type |-> "MemberExpression", object |-> object, property |-> property]

\* t.isIdentifier, t.isMemberExpression, t.isObjectExpression, ...
isType(node, type) == node.type = type

\* params.some(param => t.isAssignmentPattern(param)), and likewise for
\* t.isRestElement; params holds the type of each parameter.
someParam(node, type) ==
  \E i \in 1..Len(node.params) : node.params[i] = type

----------------------------------------------------------------------------
(* The visitors handed to traverse().  Each takes and returns the          *)
(* accumulators of the call.                                               *)

ArrowFunctionExpression(acc, code, node) ==
  addEach(acc, code, node, <<
    <<TRUE, "arrow-function">>,
    <<someParam(node, "AssignmentPattern"), "default-parameters">>,
    <<someParam(node, "RestElement"), "rest-parameters">> >>)

\* A visitor that takes every declaration but var for a const.
VariableDeclarationNotVar(acc, code, node) ==
  addEach(acc, code, node, <<
    <<node.kind # "var", "const-declaration">>,
    <<node.kind = "let", "let-declaration">> >>)

VariableDeclaration(acc, code, node) ==
  addEach(acc, code, node, <<
    <<node.kind = "const", "const-declaration">>,
    <<node.kind = "let", "let-declaration">> >>)

TemplateLiteral(acc, code, node) ==
  addIf(TRUE, acc, code, "template-literal", node)

ObjectPattern(acc, code, node) ==
  addIf(TRUE, acc, code, "destructuring", node)

ArrayPattern(acc, code, node) ==
  addIf(TRUE, acc, code, "destructuring", node)

SpreadElement(acc, code, node) ==
  addIf(TRUE, acc, code, "spread-operator", node)

RestElement(acc, code, node) ==
  addIf(TRUE, acc, code, "spread-operator", node)

FunctionBlockTypes ==
  {"FunctionDeclaration", "FunctionExpression", "ArrowFunctionExpression",
   "ObjectMethod", "ClassMethod"}

\* A walk that takes the missing parent of the Program scope for "not top
\* level".
isTopLevelBelowProgram(chain) ==
  Len(chain) > 0 /\ chain[1] = "Program"

\* The while loop of the AwaitExpression visitor; chain holds block.type of
\* `parent` and of the scopes above it, and is empty when parent is
\* undefined.
RECURSIVE isTopLevel(_)
isTopLevel(chain) ==
  IF Len(chain) = 0 THEN TRUE
  ELSE IF chain[1] = "Program" THEN TRUE
  ELSE IF chain[1] \in FunctionBlockTypes THEN FALSE
  ELSE isTopLevel(Tail(chain))

\* node.scopes holds block.type of path.scope and of every scope above it;
\* the loop starts at path.scope.parent.
AwaitExpression(acc, code, node) ==
  addEach(acc, code, node, <<
    <<TRUE, "async-await">>,
    <<isTopLevel(Tail(node.scopes)), "top-level-await">> >>)

FunctionDeclaration(acc, code, node) ==
  addEach(acc, code, node, <<
    <<node.async, "async-await">>,
    <<node.generator, "generator-function">>,
    <<someParam(node, "AssignmentPattern"), "default-parameters">>,
    <<someParam(node, "RestElement"), "rest-parameters">> >>)

FunctionExpression(acc, code, node) ==
  addEach(acc, code, node, <<
    <<node.async, "async-await">>,
    <<node.generator, "generator-function">>,
    <<someParam(node, "AssignmentPattern"), "default-parameters">>,
    <<someParam(node, "RestElement"), "rest-parameters">> >>)

\* A visitor that takes any second argument of Error for an options object.
NewExpressionAnySecondArgument(acc, code, node) ==
  LET callee == node.callee
      isId == isType(callee, "Identifier")
      a1 == addEach(acc, code, node, <<
        <<isId /\ callee.name = "Promise", "promise">>,
        <<isId /\ callee.name = "Map", "map-object">>,
        <<isId /\ callee.name = "Set", "set-object">>,
        <<isId /\ callee.name = "WeakMap", "weakmap">>,
        <<isId /\ callee.name = "WeakSet", "weakset">>,
        <<isId /\ callee.name = "WeakRef", "weakref">>,
        <<isId /\ callee.name = "FinalizationRegistry", "finalizationregistry">>,
        <<isId /\ callee.name = "Proxy", "proxy">>,
        <<isId /\ callee.name = "SharedArrayBuffer", "sharedarraybuffer">>,
        <<isId /\ callee.name = "BigInt64Array", "bigint64array">>,
        <<isId /\ callee.name = "BigUint64Array", "biguint64array">>,
        <<isId /\ callee.name = "AggregateError", "aggregate-error">>,
        <<isId /\ callee.name = "Error" /\ Len(node.arguments) >= 2,
          "error-cause">> >>)
      isIntl == /\ isType(callee, "MemberExpression")
                /\ isType(callee.object, "Identifier")
                /\ callee.object.name = "Intl"
                /\ isType(callee.property, "Identifier")
  IN addEach(a1, code, node, <<
       <<isIntl /\ callee.property.name = "RelativeTimeFormat",
         "intl-relativetimeformat">>,
       <<isIntl /\ callee.property.name = "ListFormat", "intl-listformat">> >>)

\* node.arguments holds the type of each argument.
NewExpression(acc, code, node) ==
  LET callee == node.callee
      isId == isType(callee, "Identifier")
      a1 == addEach(acc, code, node, <<
        <<isId /\ callee.name = "Promise", "promise">>,
        <<isId /\ callee.name = "Map", "map-object">>,
        <<isId /\ callee.name = "Set", "set-object">>,
        <<isId /\ callee.name = "WeakMap", "weakmap">>,
        <<isId /\ callee.name = "WeakSet", "weakset">>,
        <<isId /\ callee.name = "WeakRef", "weakref">>,
        <<isId /\ callee.name = "FinalizationRegistry", "finalizationregistry">>,
        <<isId /\ callee.name = "Proxy", "proxy">>,
        <<isId /\ callee.name = "SharedArrayBuffer", "sharedarraybuffer">>,
        <<isId /\ callee.name = "BigInt64Array", "bigint64array">>,
        <<isId /\ callee.name = "BigUint64Array", "biguint64array">>,
        <<isId /\ callee.name = "AggregateError", "aggregate-error">>,
        <<isId /\ callee.name = "Error" /\ Len(node.arguments) >= 2
               /\ node.arguments[2] = "ObjectExpression", "error-cause">> >>)
      isIntl == /\ isType(callee, "MemberExpression")
                /\ isType(callee.object, "Identifier")
                /\ callee.object.name = "Intl"
                /\ isType(callee.property, "Identifier")
  IN addEach(a1, code, node, <<
       <<isIntl /\ callee.property.name = "RelativeTimeFormat",
         "intl-relativetimeformat">>,
       <<isIntl /\ callee.property.name = "ListFormat", "intl-listformat">> >>)

ClassDeclaration(acc, code, node) ==
  addIf(TRUE, acc, code, "class-declaration", node)

ClassExpression(acc, code, node) ==
  addIf(TRUE, acc, code, "class-declaration", node)

ClassProperty(acc, code, node) ==
  addIf(node.static, acc, code, "static-class-fields", node)

PrivateName(acc, code, node) ==
  addIf(TRUE, acc, code, "private-fields", node)

ForOfStatement(acc, code, node) ==
  addEach(acc, code, node, <<
    <<TRUE, "for-of">>,
    <<node.await, "async-iteration">> >>)

OptionalMemberExpression(acc, code, node) ==
  addIf(TRUE, acc, code, "optional-chaining", node)

OptionalCallExpression(acc, code, node) ==
  addIf(TRUE, acc, code, "optional-chaining", node)

LogicalExpression(acc, code, node) ==
  addIf(node.operator = "??", acc, code, "nullish-coalescing", node)

AssignmentExpression(acc, code, node) ==
  addIf(node.operator \in {"&&=", "||=", "??="}, acc, code,
        "logical-assignment", node)

ObjectProperty(acc, code, node) ==
  addEach(acc, code, node, <<
    <<node.computed, "computed-property">>,
    <<node.shorthand, "shorthand-property">> >>)

ObjectMethod(acc, code, node) ==
  addKey(acc, "method-definition")

\* node.attributes and node.assertions hold the length of the arrays, 0 when
\* the field is absent.
ImportDeclaration(acc, code, node) ==
  addEach(addKey(acc, "import-statement"), code, node, <<
    <<node.attributes > 0, "import-attributes">>,
    <<node.assertions > 0, "import-assertions">> >>)

ExportNamedDeclaration(acc, code, node) ==
  addKey(acc, "export-statement")

ExportDefaultDeclaration(acc, code, node) ==
  addKey(acc, "export-statement")

Import(acc, code, node) ==
  addKey(acc, "dynamic-import")

\* node.raw holds extra.raw.
NumericLiteral(acc, code, node) ==
  IF includes(node.raw, "_") THEN addKey(acc, "numeric-separators") ELSE acc

BigIntLiteral(acc, code, node) ==
  addKey(acc, "bigint")

\* The rules of the CallExpression visitor for a callee that is an
\* identifier.
CallIdentifierRules(name) == <<
  <<name = "Symbol", "symbol">>,
  <<name = "structuredClone", "structuredclone">>,
  <<name = "fetch", "fetch-api">>,
  <<name = "queueMicrotask", "queuemicrotask">>,
  <<name = "reportError", "reporterror">>,
  <<name = "AbortController", "abortcontroller">>,
  <<name = "IntersectionObserver", "intersectionobserver">>,
  <<name = "MutationObserver", "mutationobserver">>,
  <<name = "ResizeObserver", "resizeobserver">>,
  <<name = "URL", "url-constructor">>,
  <<name = "URLSearchParams", "urlsearchparams">> >>

\* Its rules on the method name alone, before the static methods.
CallMethodRules(methodName) == <<
  <<methodName = "find", "array-find">>,
  <<methodName = "findIndex", "array-findindex">>,
  <<methodName = "findLast", "array-findlast">>,
  <<methodName = "findLastIndex", "array-findlastindex">>,
  <<methodName = "at", "array-at">>,
  <<methodName = "at", "string-at">>,
  <<methodName = "includes", "array-includes">>,
  <<methodName = "includes", "string-includes">>,
  <<methodName = "flat", "array-flat">>,
  <<methodName = "flatMap", "array-flatmap">>,
  <<methodName = "startsWith", "string-startswith">>,
  <<methodName = "endsWith", "string-endswith">>,
  <<methodName = "repeat", "string-repeat">>,
  <<methodName = "padStart", "string-padstart">>,
  <<methodName = "padEnd", "string-padend">>,
  <<methodName = "replaceAll", "string-replaceall">>,
  <<methodName = "matchAll", "string-matchall">>,
  <<methodName = "trimStart", "string-trimstart">>,
  <<methodName = "trimEnd", "string-trimend">>,
  <<methodName = "toReversed", "array-toreversed">>,
  <<methodName = "toSorted", "array-tosorted">>,
  <<methodName = "toSpliced", "array-tospliced">>,
  <<methodName = "with", "array-with">> >>

\* Its rules for a method of a global object named by an identifier.
CallStaticRules(objectName, methodName, arguments) == <<
  <<objectName = "Array" /\ methodName = "from", "array-from">>,
  <<objectName = "Array" /\ methodName = "fromAsync", "array-fromasync">>,
  <<objectName = "Object" /\ methodName = "assign", "object-assign">>,
  <<objectName = "Object" /\ methodName = "keys", "object-keys">>,
  <<objectName = "Object" /\ methodName = "values", "object-values">>,
  <<objectName = "Object" /\ methodName = "entries", "object-entries">>,
  <<objectName = "Object" /\ methodName = "fromEntries", "object-fromentries">>,
  <<objectName = "Object" /\ methodName = "hasOwn", "object-hasown">>,
  <<objectName = "Object" /\ methodName = "groupBy", "object-groupby">>,
  <<objectName = "Promise" /\ methodName = "allSettled", "promise-allsettled">>,
  <<objectName = "Promise" /\ methodName = "any", "promise-any">>,
  <<objectName = "Reflect", "reflect">>,
  <<objectName = "JSON" /\ methodName = "parse" /\ Len(arguments) >= 3,
    "json-parse-reviver">>,
  <<objectName = "Atomics", "atomics">>,
  <<objectName = "crypto" /\ methodName = "getRandomValues",
    "crypto-getrandomvalues">>,
  <<objectName = "crypto" /\ methodName = "randomUUID", "crypto-randomuuid">>,
  <<objectName = "performance" /\ methodName = "now", "performance-now">> >>

\* The late rules without the TypedArray variants.
CallLateRulesUntyped(methodName) == <<
  <<methodName = "isWellFormed", "string-iswellformed">>,
  <<methodName = "toWellFormed", "string-towellformed">>,
  <<methodName = "at", "array-at">>,
  <<methodName = "at", "string-at">>,
  <<methodName = "with", "array-with">> >>

\* Its rules after the static methods: the ES2024 String methods and the
\* TypedArray methods.
CallLateRules(methodName) == <<
  <<methodName = "isWellFormed", "string-iswellformed">>,
  <<methodName = "toWellFormed", "string-towellformed">>,
  <<methodName = "at", "array-at">>,
  <<methodName = "at", "string-at">>,
  <<methodName = "at", "typedarray-at">>,
  <<methodName = "with", "array-with">>,
  <<methodName = "with", "typedarray-with">> >>

CallExpression(acc, code, node) ==
  LET callee == node.callee
      a1 == IF isType(callee, "Identifier")
            THEN addEach(acc, code, node, CallIdentifierRules(callee.name))
            ELSE acc
  IN IF isType(callee, "MemberExpression")
        /\ isType(callee.property, "Identifier")
     THEN
       LET methodName == callee.property.name
           a2 == addEach(a1, code, node, CallMethodRules(methodName))
           a3 == IF isType(callee.object, "Identifier")
                 THEN addEach(a2, code, node,
                              CallStaticRules(callee.object.name, methodName,
                                              node.arguments))
                 ELSE a2
       IN addEach(a3, code, node, CallLateRules(methodName))
     ELSE a1

MemberExpression(acc, code, node) ==
  LET isId == isType(node.object, "Identifier")
  IN addEach(acc, code, node, <<
       <<isId /\ node.object.name = "globalThis", "globalthis">>,
       <<isId /\ node.object.name = "import"
              /\ isType(node.property, "Identifier")
              /\ node.property.name = "meta", "import-meta">>,
       <<isId /\ node.object.name = "localStorage", "localstorage">>,
       <<isId /\ node.object.name = "sessionStorage", "sessionstorage">>,
       <<isId /\ node.object.name = "indexedDB", "indexeddb">> >>)

\* A visitor that takes "(?<" for a named group only when a name follows.
RegExpLiteralNamedOnly(acc, code, node) ==
  addEach(acc, code, node, <<
    <<includes(node.flags, "s"), "regex-s-flag">>,
    <<includes(node.flags, "d"), "regex-match-indices">>,
    <<includes(node.flags, "v"), "regex-v-flag">>,
    <<includes(node.pattern, "(?<") /\ ~includes(node.pattern, "(?<=")
        /\ ~includes(node.pattern, "(?<!"), "regex-named-groups">>,
    <<includes(node.pattern, "(?<=") \/ includes(node.pattern, "(?<!"),
      "regex-lookbehind">>,
    <<includes(node.pattern, "\\p{"), "regex-unicode-property">> >>)

RegExpLiteral(acc, code, node) ==
  addEach(acc, code, node, <<
    <<includes(node.flags, "s"), "regex-s-flag">>,
    <<includes(node.flags, "d"), "regex-match-indices">>,
    <<includes(node.flags, "v"), "regex-v-flag">>,
    <<includes(node.pattern, "(?<"), "regex-named-groups">>,
    <<includes(node.pattern, "(?<=") \/ includes(node.pattern, "(?<!"),
      "regex-lookbehind">>,
    <<includes(node.pattern, "\\p{"), "regex-unicode-property">> >>)

ClassPrivateMethod(acc, code, node) ==
  addIf(TRUE, acc, code, "private-methods", node)

\* traverse() calls the visitor registered for the node's type, if any.
VisitNode(acc, code, node) ==
  CASE node.type = "ArrowFunctionExpression" -> ArrowFunctionExpression(acc, code, node)
    [] node.type = "VariableDeclaration" -> VariableDeclaration(acc, code, node)
    [] node.type = "TemplateLiteral" -> TemplateLiteral(acc, code, node)
    [] node.type = "ObjectPattern" -> ObjectPattern(acc, code, node)
    [] node.type = "ArrayPattern" -> ArrayPattern(acc, code, node)
    [] node.type = "SpreadElement" -> SpreadElement(acc, code, node)
    [] node.type = "RestElement" -> RestElement(acc, code, node)
    [] node.type = "AwaitExpression" -> AwaitExpression(acc, code, node)
    [] node.type = "FunctionDeclaration" -> FunctionDeclaration(acc, code, node)
    [] node.type = "FunctionExpression" -> FunctionExpression(acc, code, node)
    [] node.type = "NewExpression" -> NewExpression(acc, code, node)
    [] node.type = "ClassDeclaration" -> ClassDeclaration(acc, code, node)
    [] node.type = "ClassExpression" -> ClassExpression(acc, code, node)
    [] node.type = "ClassProperty" -> ClassProperty(acc, code, node)
    [] node.type = "PrivateName" -> PrivateName(acc, code, node)
    [] node.type = "ForOfStatement" -> ForOfStatement(acc, code, node)
    [] node.type = "OptionalMemberExpression" -> OptionalMemberExpression(acc, code, node)
    [] node.type = "OptionalCallExpression" -> OptionalCallExpression(acc, code, node)
    [] node.type = "LogicalExpression" -> LogicalExpression(acc, code, node)
    [] node.type = "AssignmentExpression" -> AssignmentExpression(acc, code, node)
    [] node.type = "ObjectProperty" -> ObjectProperty(acc, code, node)
    [] node.type = "ObjectMethod" -> ObjectMethod(acc, code, node)
    [] node.type = "ImportDeclaration" -> ImportDeclaration(acc, code, node)
    [] node.type = "ExportNamedDeclaration" -> ExportNamedDeclaration(acc, code, node)
    [] node.type = "ExportDefaultDeclaration" -> ExportDefaultDeclaration(acc, code, node)
    [] node.type = "Import" -> Import(acc, code, node)
    [] node.type = "NumericLiteral" -> NumericLiteral(acc, code, node)
    [] node.type = "BigIntLiteral" -> BigIntLiteral(acc, code, node)
    [] node.type = "CallExpression" -> CallExpression(acc, code, node)
    [] node.type = "MemberExpression" -> MemberExpression(acc, code, node)
    [] node.type = "RegExpLiteral" -> RegExpLiteral(acc, code, node)
    [] node.type = "ClassPrivateMethod" -> ClassPrivateMethod(acc, code, node)
    [] OTHER -> acc

----------------------------------------------------------------------------
(* Numbers and their conversions.  A number is n / 10^e, kept with no      *)
(* trailing zero in the fraction, or NaN.                                  *)

DigitChars == <<"0", "1", "2", "3", "4", "5", "6", "7", "8", "9">>

isDigit(c) == \E d \in 1..10 : DigitChars[d] = c

DigitValue(c) == (CHOOSE d \in 1..10 : DigitChars[d] = c) - 1

RECURSIVE Pow10(_)
Pow10(e) == IF e = 0 THEN 1 ELSE 10 * Pow10(e - 1)

NaN == [nan |-> TRUE, n |-> 0, e |-> 0]

RECURSIVE Number(_, _)
Number(n, e) ==
  IF e > 0 /\ n % 10 = 0 THEN Number(n \div 10, e - 1)
  ELSE [nan |-> FALSE, n |-> n, e |-> e]

isNaN(x) == x.nan

\* a > b, for numbers that are not NaN
Greater(a, b) == a.n * Pow10(b.e) > b.n * Pow10(a.e)

\* version.replace(/[^0-9.]/g, '')
RECURSIVE keepNumeric(_)
keepNumeric(s) ==
  IF Len(s) = 0 THEN ""
  ELSE LET c == SubSeq(s, 1, 1)
       IN (IF isDigit(c) \/ c = "." THEN c ELSE "")
            \o keepNumeric(SubSeq(s, 2, Len(s)))

\* The number of digits of s from position i (1-based) on.
RECURSIVE digitRun(_, _)
digitRun(s, i) ==
  IF i <= Len(s) /\ isDigit(SubSeq(s, i, i)) THEN 1 + digitRun(s, i + 1) ELSE 0

\* The value of a string of digits.
RECURSIVE digitsValue(_)
digitsValue(s) ==
  IF Len(s) = 0 THEN 0
  ELSE 10 * digitsValue(SubSeq(s, 1, Len(s) - 1))
         + DigitValue(SubSeq(s, Len(s), Len(s)))

\* parseFloat(s) for a string of digits and periods: the longest prefix that
\* is a decimal literal, NaN when that prefix holds no digit.
parseFloat(s) ==
  LET i == digitRun(s, 1)
      f == IF i < Len(s) /\ SubSeq(s, i + 1, i + 1) = "."
           THEN digitRun(s, i + 2) ELSE 0
  IN IF i = 0 /\ f = 0 THEN NaN
     ELSE Number(digitsValue(SubSeq(s, 1, i) \o SubSeq(s, i + 2, i + 1 + f)), f)

RECURSIVE natToString(_)
natToString(k) ==
  IF k < 10 THEN DigitChars[k + 1]
  ELSE natToString(k \div 10) \o DigitChars[(k % 10) + 1]

\* k written with exactly e digits
RECURSIVE padded(_, _)
padded(k, e) ==
  IF e = 0 THEN "" ELSE padded(k \div 10, e - 1) \o DigitChars[(k % 10) + 1]

\* x.toString() for a number that is not NaN
toString(x) ==
  IF x.e = 0 THEN natToString(x.n)
  ELSE natToString(x.n \div Pow10(x.e)) \o "." \o padded(x.n % Pow10(x.e), x.e)

\* Math.min in the place of Math.max.
RECURSIVE mathMin(_)
mathMin(versions) ==
  IF Len(versions) = 1 THEN versions[1]
  ELSE LET rest == mathMin(Tail(versions))
       IN IF Greater(rest, versions[1]) THEN versions[1] ELSE rest

\* The version stated last in the place of the largest.
lastVersion(versions) == versions[Len(versions)]

\* Math.max(...versions) for a non-empty array without NaN
RECURSIVE mathMax(_)
mathMax(versions) ==
  IF Len(versions) = 1 THEN versions[1]
  ELSE LET rest == mathMax(Tail(versions))
       IN IF Greater(versions[1], rest) THEN versions[1] ELSE rest

----------------------------------------------------------------------------
(* Building the result.                                                    *)

browsers == <<"chrome", "firefox", "safari", "edge", "ie">>

\* One element of the map() over Array.from(detectedFeatures): null for a
\* key without a catalogue entry.
DetectedFeature(featureKey, snippets) ==
  IF featureKey \notin FeatureKeys THEN None
  ELSE [feature |-> featureMap[featureKey].feature,
        support |-> featureMap[featureKey].support,
        codeSnippets |-> SnippetsOf(snippets, featureKey)]

\* A build that also drops the keys recorded without evidence.
BuildFeaturesWithEvidence(detected, snippets) ==
  SelectSeq([i \in 1..Len(detected) |->
               DetectedFeature(detected[i], snippets)],
            LAMBDA f : "none" \notin DOMAIN f /\ Len(f.codeSnippets) > 0)

\* Array.from(detectedFeatures).map(...).filter(Boolean)
BuildFeatures(detected, snippets) ==
  SelectSeq([i \in 1..Len(detected) |->
               DetectedFeature(detected[i], snippets)],
            LAMBDA f : "none" \notin DOMAIN f)

\* A count of the features with a hard "No" only.
modernFeaturesHardNo(features) ==
  Len(SelectSeq(features, LAMBDA f : f.support.ie = "No"))

modernFeatures(features) ==
  Len(SelectSeq(features,
                LAMBDA f : f.support.ie = "No" \/ includes(f.support.ie, "*")))

\* A flag that the partial-support marker also makes false.
legacySupportUnmarked(features) ==
  \A i \in 1..Len(features) :
    features[i].support.ie # "No" /\ ~includes(features[i].support.ie, "*")

legacySupport(features) ==
  \A i \in 1..Len(features) : features[i].support.ie # "No"

\* A column from which every value with a "*" marker is dropped as well.
versionNumbersUnmarked(features, browser) ==
  LET column == [i \in 1..Len(features) |-> features[i].support[browser]]
      stated == SelectSeq(column, LAMBDA version :
                            version # "No" /\ ~includes(version, "*"))
      parsed == [i \in 1..Len(stated) |-> parseFloat(keepNumeric(stated[i]))]
  IN SelectSeq(parsed, LAMBDA version : ~isNaN(version))

\* The numbers of one browser's column, as the map/filter chain leaves them.
versionNumbers(features, browser) ==
  LET column == [i \in 1..Len(features) |-> features[i].support[browser]]
      stated == SelectSeq(column, LAMBDA version : version # "No")
      parsed == [i \in 1..Len(stated) |-> parseFloat(keepNumeric(stated[i]))]
  IN SelectSeq(parsed, LAMBDA version : ~isNaN(version))

\* A slot that reads "0+" when no feature states a number for it.
minimumVersionFromZero(features, browser) ==
  LET versions == versionNumbers(features, browser)
  IN IF Len(versions) = 0 THEN "0+"
     ELSE toString(mathMax(versions)) \o "+"

minimumVersion(features, browser) ==
  LET versions == versionNumbers(features, browser)
  IN IF Len(versions) = 0 THEN "No"
     ELSE toString(mathMax(versions)) \o "+"

calculateMinimumVersions(features) ==
  [chrome |-> minimumVersion(features, browsers[1]),
   firefox |-> minimumVersion(features, browsers[2]),
   safari |-> minimumVersion(features, browsers[3]),
   edge |-> minimumVersion(features, browsers[4]),
   ie |-> minimumVersion(features, browsers[5])]

\* The object analyzeCode returns.
AnalysisResult(detected, snippets) ==
  LET features == BuildFeatures(detected, snippets)
  IN [features |-> features,
      summary |-> [totalFeatures |-> Len(features),
                   modernFeatures |-> modernFeatures(features),
                   legacySupport |-> legacySupport(features)],
      minimumVersions |-> calculateMinimumVersions(features)]

\* A catch block that throws the caught message as it is.
RawMessage(message) == message

\* The message of the Error the catch block throws for a caught Error.
FailureMessage(message) == "Failed to parse JavaScript code: " \o message

----------------------------------------------------------------------------
(* The inputs: programs of up to MaxStmts statements, one per line, with   *)
(* or without a hashbang line in front.                                    *)

\* A statement, the nodes the parser builds for it (offsets from the start
\* of the statement), and whether the parser rejects it.
Fragments == <<
  [text |-> "async function f() { await g(); }", malformed |-> FALSE, nodes |-> <<
      Node("FunctionDeclaration", 0, 33, [async |-> TRUE, generator |-> FALSE, params |-> <<>>]),
      Node("AwaitExpression", 21, 30, [scopes |-> <<"FunctionDeclaration", "Program">>]),
      Node("CallExpression", 27, 30, [callee |-> Ident("g"), arguments |-> <<>>])>>],
  [text |-> "async function f() { if (a) { await g(); } }", malformed |-> FALSE, nodes |-> <<
      Node("FunctionDeclaration", 0, 44, [async |-> TRUE, generator |-> FALSE, params |-> <<>>]),
      Node("AwaitExpression", 30, 39, [scopes |-> <<"BlockStatement", "FunctionDeclaration", "Program">>]),
      Node("CallExpression", 36, 39, [callee |-> Ident("g"), arguments |-> <<>>])>>],
  [text |-> "await g();", malformed |-> FALSE, nodes |-> <<
      Node("AwaitExpression", 0, 9, [scopes |-> <<"Program">>]),
      Node("CallExpression", 6, 9, [callee |-> Ident("g"), arguments |-> <<>>])>>],
  [text |-> "const f = async (a = b, ...r) => a;", malformed |-> FALSE, nodes |-> <<
      Node("VariableDeclaration", 0, 35, [kind |-> "const"]),
      Node("ArrowFunctionExpression", 10, 34, [async |-> TRUE, generator |-> FALSE, params |-> <<"AssignmentPattern", "RestElement">>]),
      Node("RestElement", 24, 28, NoProps)>>],
  [text |-> "({ async *m(a = b, ...r) {} });", malformed |-> FALSE, nodes |-> <<
      Node("ObjectMethod", 3, 27, [async |-> TRUE, generator |-> TRUE, params |-> <<"AssignmentPattern", "RestElement">>]),
      Node("RestElement", 19, 23, NoProps)>>],
  [text |-> "class A { async *m(a = b, ...r) {} }", malformed |-> FALSE, nodes |-> <<
      Node("ClassDeclaration", 0, 36, NoProps),
      Node("ClassMethod", 10, 34, [async |-> TRUE, generator |-> TRUE, params |-> <<"AssignmentPattern", "RestElement">>]),
      Node("RestElement", 26, 30, NoProps)>>],
  [text |-> "function* h(a = b, ...r) {}", malformed |-> FALSE, nodes |-> <<
      Node("FunctionDeclaration", 0, 27, [async |-> FALSE, generator |-> TRUE, params |-> <<"AssignmentPattern", "RestElement">>]),
      Node("RestElement", 19, 23, NoProps)>>],
  [text |-> "(async function (a = b, ...r) {});", malformed |-> FALSE, nodes |-> <<
      Node("FunctionExpression", 1, 32, [async |-> TRUE, generator |-> FALSE, params |-> <<"AssignmentPattern", "RestElement">>]),
      Node("RestElement", 24, 28, NoProps)>>],
  [text |-> "x.at(i);", malformed |-> FALSE, nodes |-> <<
      Node("CallExpression", 0, 7, [callee |-> Member(Ident("x"), Ident("at")), arguments |-> <<"Identifier">>]),
      Node("MemberExpression", 0, 4, [object |-> Ident("x"), property |-> Ident("at")])>>],
  [text |-> "y.with(i, v);", malformed |-> FALSE, nodes |-> <<
      Node("CallExpression", 0, 12, [callee |-> Member(Ident("y"), Ident("with")), arguments |-> <<"Identifier", "Identifier">>]),
      Node("MemberExpression", 0, 6, [object |-> Ident("y"), property |-> Ident("with")])>>],
  [text |-> "import d from 'm';", malformed |-> FALSE, nodes |-> <<
      Node("ImportDeclaration", 0, 18, [attributes |-> 0, assertions |-> 0])>>],
  [text |-> "import j from 'd' with { type: 'json' };", malformed |-> FALSE, nodes |-> <<
      Node("ImportDeclaration", 0, 40, [attributes |-> 1, assertions |-> 0])>>],
  [text |-> "export default 1n;", malformed |-> FALSE, nodes |-> <<
      Node("ExportDefaultDeclaration", 0, 18, NoProps),
      Node("BigIntLiteral", 15, 17, NoProps)>>],
  [text |-> "import('m');", malformed |-> FALSE, nodes |-> <<
      Node("CallExpression", 0, 11, [callee |-> [type |-> "Import"], arguments |-> <<"StringLiteral">>]),
      Node("Import", 0, 6, NoProps)>>],
  [text |-> "let n = 1_000;", malformed |-> FALSE, nodes |-> <<
      Node("VariableDeclaration", 0, 14, [kind |-> "let"]),
      Node("NumericLiteral", 8, 13, [raw |-> "1_000"])>>],
  [text |-> "var s = localStorage.k;", malformed |-> FALSE, nodes |-> <<
      Node("VariableDeclaration", 0, 23, [kind |-> "var"]),
      Node("MemberExpression", 8, 22, [object |-> Ident("localStorage"), property |-> Ident("k")])>>],
  [text |-> "function {", malformed |-> TRUE, nodes |-> <<>>],
  [text |-> "if (a) { await g(); }", malformed |-> FALSE, nodes |-> <<
      Node("AwaitExpression", 9, 18, [scopes |-> <<"BlockStatement", "Program">>]),
      Node("CallExpression", 15, 18, [callee |-> Ident("g"), arguments |-> <<>>])>>],
  [text |-> "[a].includes(v);", malformed |-> FALSE, nodes |-> <<
      Node("CallExpression", 0, 15, [callee |-> Member([type |-> "ArrayExpression"], Ident("includes")), arguments |-> <<"Identifier">>]),
      Node("MemberExpression", 0, 12, [object |-> [type |-> "ArrayExpression"], property |-> Ident("includes")])>>],
  [text |-> "const x = 1;", malformed |-> FALSE, nodes |-> <<
      Node("VariableDeclaration", 0, 12, [kind |-> "const"]),
      Node("NumericLiteral", 10, 11, [raw |-> "1"])>>],
  [text |-> "new URL(u);", malformed |-> FALSE, nodes |-> <<
      Node("NewExpression", 0, 10, [callee |-> Ident("URL"), arguments |-> <<"Identifier">>])>>],
  [text |-> "new Error(m, { cause: e });", malformed |-> FALSE, nodes |-> <<
      Node("NewExpression", 0, 26, [callee |-> Ident("Error"), arguments |-> <<"Identifier", "ObjectExpression">>]),
      Node("ObjectProperty", 15, 23, [computed |-> FALSE, shorthand |-> FALSE])>>],
  [text |-> "new Error(m, {});", malformed |-> FALSE, nodes |-> <<
      Node("NewExpression", 0, 16, [callee |-> Ident("Error"), arguments |-> <<"Identifier", "ObjectExpression">>])>>],
  [text |-> "new Error(m, { code: 1 });", malformed |-> FALSE, nodes |-> <<
      Node("NewExpression", 0, 25, [callee |-> Ident("Error"), arguments |-> <<"Identifier", "ObjectExpression">>]),
      Node("ObjectProperty", 15, 22, [computed |-> FALSE, shorthand |-> FALSE]),
      Node("NumericLiteral", 21, 22, [raw |-> "1"])>>],
  [text |-> "new Error(m);", malformed |-> FALSE, nodes |-> <<
      Node("NewExpression", 0, 12, [callee |-> Ident("Error"), arguments |-> <<"Identifier">>])>>],
  [text |-> "new Error(m, o);", malformed |-> FALSE, nodes |-> <<
      Node("NewExpression", 0, 15, [callee |-> Ident("Error"), arguments |-> <<"Identifier", "Identifier">>])>>],
  [text |-> "new TypeError(m, { cause: e });", malformed |-> FALSE, nodes |-> <<
      Node("NewExpression", 0, 30, [callee |-> Ident("TypeError"), arguments |-> <<"Identifier", "ObjectExpression">>]),
      Node("ObjectProperty", 19, 27, [computed |-> FALSE, shorthand |-> FALSE])>>],
  [text |-> "new ns.Error(m, {});", malformed |-> FALSE, nodes |-> <<
      Node("NewExpression", 0, 19, [callee |-> Member(Ident("ns"), Ident("Error")), arguments |-> <<"Identifier", "ObjectExpression">>]),
      Node("MemberExpression", 4, 12, [object |-> Ident("ns"), property |-> Ident("Error")])>>],
  [text |-> "new Map();", malformed |-> FALSE, nodes |-> <<
      Node("NewExpression", 0, 9, [callee |-> Ident("Map"), arguments |-> <<>>])>>],
  [text |-> "new WeakRef(o);", malformed |-> FALSE, nodes |-> <<
      Node("NewExpression", 0, 14, [callee |-> Ident("WeakRef"), arguments |-> <<"Identifier">>])>>],
  [text |-> "/(?<=a)b/;", malformed |-> FALSE, nodes |-> <<
      Node("RegExpLiteral", 0, 9, [pattern |-> "(?<=a)b", flags |-> ""])>>],
  [text |-> "/(?<!a)b/;", malformed |-> FALSE, nodes |-> <<
      Node("RegExpLiteral", 0, 9, [pattern |-> "(?<!a)b", flags |-> ""])>>],
  [text |-> "/(?<y>a)/;", malformed |-> FALSE, nodes |-> <<
      Node("RegExpLiteral", 0, 9, [pattern |-> "(?<y>a)", flags |-> ""])>>],
  [text |-> "/a/s;", malformed |-> FALSE, nodes |-> <<
      Node("RegExpLiteral", 0, 4, [pattern |-> "a", flags |-> "s"])>>],
  [text |-> "var v = 1;", malformed |-> FALSE, nodes |-> <<
      Node("VariableDeclaration", 0, 10, [kind |-> "var"]),
      Node("NumericLiteral", 8, 9, [raw |-> "1"])>>]
>>

HashbangLine == "#!/usr/bin/env node"

\* What the parser's SyntaxError may say.
ParserMessages == {"Unexpected token (1:9)", "Unexpected token (2:9)"}

\* The node with its span moved to where the statement starts.
Shift(node, offset) ==
  [node EXCEPT !.start = @ + offset, !.end = @ + offset]

\* The offset at which line k (1-based) of the program starts.
RECURSIVE LineOffset(_, _)
LineOffset(lines, k) ==
  IF k = 1 THEN 0 ELSE LineOffset(lines, k - 1) + Len(lines[k - 1]) + 1

\* The nodes of statements stmts[k..], the first of them on line `line`.
RECURSIVE Tree(_, _, _, _)
Tree(lines, stmts, k, line) ==
  IF k > Len(stmts) THEN <<>>
  ELSE LET nodes == Fragments[stmts[k]].nodes
       IN [i \in 1..Len(nodes) |-> Shift(nodes[i], LineOffset(lines, line))]
            \o Tree(lines, stmts, k + 1, line + 1)

\* The argument of one call with the answer parse() gives for it: stmts
\* indexes Fragments; message is the diagnostic if the parser rejects it.
Input(hashbang, stmts, message) ==
  LET head == IF hashbang THEN <<HashbangLine>> ELSE <<>>
      lines == head \o [k \in 1..Len(stmts) |-> Fragments[stmts[k]].text]
      ok == \A k \in 1..Len(stmts) : ~Fragments[stmts[k]].malformed
  IN [code |-> join(lines),
      ok |-> ok,
      message |-> IF ok THEN "" ELSE message,
      ast |-> IF ok THEN Tree(lines, stmts, 1, Len(head) + 1) ELSE <<>>]

Programs(fragments, maxStmts) ==
  UNION {[1..n -> fragments] : n \in 0..maxStmts}

InputsOver(fragments, maxStmts) ==
  {Input(h, s, m) : h \in BOOLEAN, s \in Programs(fragments, maxStmts),
                    m \in ParserMessages}

\* The statements of the programs analysed one call at a time.
BaseFragments == 1..21

Inputs == InputsOver(BaseFragments, MaxStmts)

----------------------------------------------------------------------------
(* analyzeCode as a state machine, one instance per call.                  *)

Calls == DOMAIN pc

\* The page before any event: the initial values of its four useState hooks.
useState == [code |-> "", analysis |-> None, loading |-> FALSE, error |-> None]

InitWith(calls, inputs) ==
  /\ input \in [calls -> inputs]
  /\ pc = [c \in calls |-> "start"]
  /\ ast = [c \in calls |-> <<>>]
  /\ pos = [c \in calls |-> 0]
  /\ detectedFeatures = [c \in calls |-> <<>>]
  /\ featureSnippets = [c \in calls |-> <<>>]
  /\ result = [c \in calls |-> None]
  /\ error = [c \in calls |-> None]
  /\ home = useState

Init == InitWith({1}, Inputs)

\* Accumulators declared outside analyzeCode: every call reads those of
\* the first.
SharedAcc(c) == Acc(detectedFeatures[1], featureSnippets[1])

\* The accumulators of call c.
AccOf(c) == Acc(detectedFeatures[c], featureSnippets[c])

\* Accumulators kept in one place for all calls: an update by one call is
\* an update for every call.
SetAccOfAll(c, acc) ==
  /\ detectedFeatures' = [d \in Calls |-> acc.detectedFeatures]
  /\ featureSnippets' = [d \in Calls |-> acc.featureSnippets]

SetAcc(c, acc) ==
  /\ detectedFeatures' = [detectedFeatures EXCEPT ![c] = acc.detectedFeatures]
  /\ featureSnippets' = [featureSnippets EXCEPT ![c] = acc.featureSnippets]

\* A check that records the whole first line as the evidence of the hashbang.
CheckHashbangWholeLine(c) ==
  /\ pc[c] = "start"
  /\ SetAcc(c, IF startsWith(input[c].code, "#!")
               THEN addFeature(AccOf(c), input[c].code, "hashbang", 0,
                               Len(split(input[c].code)[1]))
               ELSE AccOf(c))
  /\ pc' = [pc EXCEPT ![c] = "parse"]
  /\ UNCHANGED <<input, ast, pos, result, error, home>>

\* if (code.startsWith('#!')) addFeature('hashbang', 0, 2)
CheckHashbang(c) ==
  /\ pc[c] = "start"
  /\ SetAcc(c, IF startsWith(input[c].code, "#!")
               THEN addFeature(AccOf(c), input[c].code, "hashbang", 0, 2)
               ELSE AccOf(c))
  /\ pc' = [pc EXCEPT ![c] = "parse"]
  /\ UNCHANGED <<input, ast, pos, result, error, home>>

\* parse(code, ...) returns the tree.
Parse(c) ==
  /\ pc[c] = "parse"
  /\ input[c].ok
  /\ ast' = [ast EXCEPT ![c] = input[c].ast]
  /\ pos' = [pos EXCEPT ![c] = 0]
  /\ pc' = [pc EXCEPT ![c] = "traverse"]
  /\ UNCHANGED <<input, detectedFeatures, featureSnippets, result, error,
                 home>>

\* parse(code, ...) throws; the catch block throws the wrapping Error and
\* the promise is rejected.
ParseFails(c) ==
  /\ pc[c] = "parse"
  /\ ~input[c].ok
  /\ error' = [error EXCEPT ![c] = [message |-> FailureMessage(input[c].message)]]
  /\ pc' = [pc EXCEPT ![c] = "rejected"]
  /\ UNCHANGED <<input, ast, pos, detectedFeatures, featureSnippets, result,
                 home>>

\* traverse() enters the next node and calls its visitor.
Visit(c) ==
  /\ pc[c] = "traverse"
  /\ pos[c] < Len(ast[c])
  /\ SetAcc(c, VisitNode(AccOf(c), input[c].code, ast[c][pos[c] + 1]))
  /\ pos' = [pos EXCEPT ![c] = @ + 1]
  /\ UNCHANGED <<input, pc, ast, result, error, home>>

\* traverse() has returned: build the result and return it.
Return(c) ==
  /\ pc[c] = "traverse"
  /\ pos[c] = Len(ast[c])
  /\ result' = [result EXCEPT ![c] = AnalysisResult(detectedFeatures[c],
                                                    featureSnippets[c])]
  /\ pc' = [pc EXCEPT ![c] = "resolved"]
  /\ UNCHANGED <<input, ast, pos, detectedFeatures, featureSnippets, error,
                 home>>

Next ==
  \/ \E c \in Calls : CheckHashbang(c)
  \/ \E c \in Calls : Parse(c)
  \/ \E c \in Calls : ParseFails(c)
  \/ \E c \in Calls : Visit(c)
  \/ \E c \in Calls : Return(c)

Spec == Init /\ [][Next]_vars

\* The statements of the programs analysed twice.
TwiceFragments == {1, 4, 9, 11, 17}

\* Two calls with the same argument.
InitTwice ==
  \E i \in InputsOver(TwiceFragments, MaxStmts) : InitWith({1, 2}, {i})

SpecTwice == InitTwice /\ [][Next]_vars

----------------------------------------------------------------------------
(* The whole of one call as a function of its argument.                    *)

\* traverse(ast, visitors): the visitors applied to the nodes in order.  The
\* test on acc has TLC evaluate the accumulators node by node instead of
\* nesting the evaluation of all visitors.
RECURSIVE traverse(_, _, _)
traverse(acc, code, nodes) ==
  IF nodes = <<>> \/ Len(acc.detectedFeatures) < 0 THEN acc
  ELSE traverse(VisitNode(acc, code, Head(nodes)), code, Tail(nodes))

\* What analyzeCode returns for an argument the parser accepts.
analyzeCode(i) ==
  LET start == Acc(<<>>, <<>>)
      checked == IF startsWith(i.code, "#!")
                 THEN addFeature(start, i.code, "hashbang", 0, 2)
                 ELSE start
      visited == traverse(checked, i.code, i.ast)
  IN AnalysisResult(visited.detectedFeatures, visited.featureSnippets)

----------------------------------------------------------------------------
(* The same call with the nodes of the tree visited in any order: ast      *)
(* holds the nodes not visited yet.                                        *)

\* s without its i-th element.
Without(s, i) == SubSeq(s, 1, i - 1) \o SubSeq(s, i + 1, Len(s))

\* The visitor of any node not visited yet is called.
VisitAny(c) ==
  /\ pc[c] = "traverse"
  /\ \E i \in 1..Len(ast[c]) :
       /\ SetAcc(c, VisitNode(AccOf(c), input[c].code, ast[c][i]))
       /\ ast' = [ast EXCEPT ![c] = Without(@, i)]
  /\ UNCHANGED <<input, pc, pos, result, error, home>>

NextAnyOrder ==
  \/ \E c \in Calls : CheckHashbang(c)
  \/ \E c \in Calls : Parse(c)
  \/ \E c \in Calls : ParseFails(c)
  \/ \E c \in Calls : VisitAny(c)
  \/ \E c \in Calls : Return(c)

\* The statements of the programs visited in any order.
AnyOrderFragments == {9, 15, 16, 17}

InitAnyOrder == InitWith({1}, InputsOver(AnyOrderFragments, MaxStmts))

SpecAnyOrder == InitAnyOrder /\ [][NextAnyOrder]_vars

----------------------------------------------------------------------------
(* Two calls in progress at once, each with an argument of its own.        *)

\* The statements of their programs.
PairFragments == {9, 15, 17}

InitPair == InitWith({1, 2}, InputsOver(PairFragments, MaxStmts))

SpecPair == InitPair /\ [][Next]_vars

----------------------------------------------------------------------------
(* extractSnippet called by itself: a call's input is a text with a span   *)
(* of it, its result the CodeSnippet.                                      *)

\* The lines the texts are made of.
SnippetLines == {"", "ab"}

\* The texts of one to maxLines of these lines.
SnippetTexts(maxLines) ==
  {join(lines) : lines \in UNION {[1..n -> SnippetLines] : n \in 1..maxLines}}

\* The calls extractSnippet(start, end) with 0 <= start <= end <= code.length.
SnippetCalls ==
  UNION {UNION {{[code |-> code, start |-> start, end |-> end] :
                   end \in start..Len(code)} :
                start \in 0..Len(code)} :
         code \in SnippetTexts(MaxLines)}

InitSnippet ==
  /\ input \in [{1} -> SnippetCalls]
  /\ pc = [c \in {1} |-> "start"]
  /\ ast = [c \in {1} |-> <<>>]
  /\ pos = [c \in {1} |-> 0]
  /\ detectedFeatures = [c \in {1} |-> <<>>]
  /\ featureSnippets = [c \in {1} |-> <<>>]
  /\ result = [c \in {1} |-> None]
  /\ error = [c \in {1} |-> None]
  /\ home = useState

\* const snippet = extractSnippet(start, end)
ExtractSnippet(c) ==
  /\ pc[c] = "start"
  /\ result' = [result EXCEPT
                  ![c] = extractSnippet(input[c].code, input[c].start,
                                        input[c].end)]
  /\ pc' = [pc EXCEPT ![c] = "returned"]
  /\ UNCHANGED <<input, ast, pos, detectedFeatures, featureSnippets, error,
                 home>>

NextSnippet == \E c \in Calls : ExtractSnippet(c)

SpecSnippet == InitSnippet /\ [][NextSnippet]_vars

----------------------------------------------------------------------------
(* Programs of construction expressions, and programs of regular           *)
(* expression literals and var declarations.                               *)

ConstructFragments == {17} \cup 22..30

InitConstruct == InitWith({1}, InputsOver(ConstructFragments, MaxStmts))

SpecConstruct == InitConstruct /\ [][Next]_vars

LiteralFragments == {17} \cup 31..35

InitLiteral == InitWith({1}, InputsOver(LiteralFragments, MaxStmts))

SpecLiteral == InitLiteral /\ [][Next]_vars

----------------------------------------------------------------------------
(* The page, src/src/app/page.tsx.  Its handlers run as browser events.    *)
(* analyzeCode is an async function without an await of its own, so the    *)
(* promise it returns is settled when the call returns, and the rest of    *)
(* handleAnalyze, which awaits it, runs from the microtask queue before    *)
(* the browser dispatches another event: no handler starts while a call of *)
(* handleAnalyze is in progress.  The one call of analyzeCode in progress  *)
(* is call 1, started afresh by every handleAnalyze.                       *)

\* The statements of the texts typed into the page.
PageFragments == {17, 20, 35}

\* The texts of at most one statement, with the parser's answer.
PageInputs == InputsOver(PageFragments, 1)

\* What the user may type: these texts and a text of whitespace only.
PageTexts == {i.code : i \in PageInputs} \cup {" \n "}

\* The error state when it holds a message; None when it is null.
ErrorText(message) == [message |-> message]

isWhitespace(char) == char \in {" ", "\n", "\t", "\r"}

\* s.trim()
RECURSIVE trim(_)
trim(s) ==
  IF Len(s) = 0 THEN s
  ELSE IF isWhitespace(SubSeq(s, 1, 1)) THEN trim(SubSeq(s, 2, Len(s)))
  ELSE IF isWhitespace(SubSeq(s, Len(s), Len(s)))
       THEN trim(SubSeq(s, 1, Len(s) - 1))
  ELSE s

InitPage ==
  /\ input = [c \in {1} |-> None]
  /\ pc = [c \in {1} |-> "idle"]
  /\ ast = [c \in {1} |-> <<>>]
  /\ pos = [c \in {1} |-> 0]
  /\ detectedFeatures = [c \in {1} |-> <<>>]
  /\ featureSnippets = [c \in {1} |-> <<>>]
  /\ result = [c \in {1} |-> None]
  /\ error = [c \in {1} |-> None]
  /\ home = useState

\* No call of handleAnalyze is in progress.
Idle == pc[1] \in {"idle", "settled"}

\* onChange={setCode}: the user edits the text.
SetCode ==
  /\ Idle
  /\ \E text \in PageTexts : home' = [home EXCEPT !.code = text]
  /\ UNCHANGED <<input, pc, ast, pos, detectedFeatures, featureSnippets,
                 result, error>>

\* handleAnalyze up to its await: the test of the text, setLoading(true),
\* setError(null) and the call analyzeCode(code).
HandleAnalyze ==
  /\ Idle
  /\ IF trim(home.code) = ""
     THEN /\ home' = [home EXCEPT
                        !.error = ErrorText(
                          "Please enter some JavaScript code to analyze")]
          /\ UNCHANGED <<input, pc, ast, pos, detectedFeatures,
                         featureSnippets, result, error>>
     ELSE /\ home' = [home EXCEPT !.loading = TRUE, !.error = None]
          /\ \E i \in PageInputs :
               /\ i.code = home.code
               /\ input' = [input EXCEPT ![1] = i]
          /\ pc' = [pc EXCEPT ![1] = "start"]
          /\ ast' = [ast EXCEPT ![1] = <<>>]
          /\ pos' = [pos EXCEPT ![1] = 0]
          /\ detectedFeatures' = [detectedFeatures EXCEPT ![1] = <<>>]
          /\ featureSnippets' = [featureSnippets EXCEPT ![1] = <<>>]
          /\ result' = [result EXCEPT ![1] = None]
          /\ error' = [error EXCEPT ![1] = None]

\* A handleAnalyze without its finally block.
AwaitSettledNoFinally ==
  /\ pc[1] \in {"resolved", "rejected"}
  /\ home' = IF pc[1] = "resolved"
             THEN [home EXCEPT !.analysis = result[1], !.loading = FALSE]
             ELSE [home EXCEPT !.error = ErrorText(error[1].message)]
  /\ pc' = [pc EXCEPT ![1] = "settled"]
  /\ UNCHANGED <<input, ast, pos, detectedFeatures, featureSnippets, result,
                 error>>

\* A catch block that clears the result as well.
AwaitSettledClearing ==
  /\ pc[1] \in {"resolved", "rejected"}
  /\ home' = IF pc[1] = "resolved"
             THEN [home EXCEPT !.analysis = result[1], !.loading = FALSE]
             ELSE [home EXCEPT !.error = ErrorText(error[1].message),
                               !.analysis = None, !.loading = FALSE]
  /\ pc' = [pc EXCEPT ![1] = "settled"]
  /\ UNCHANGED <<input, ast, pos, detectedFeatures, featureSnippets, result,
                 error>>

\* handleAnalyze after its await: setAnalysis(result) when the promise is
\* resolved, setError(err.message) when it is rejected (what analyzeCode
\* throws is an Error), and setLoading(false) in either case.
AwaitSettled ==
  /\ pc[1] \in {"resolved", "rejected"}
  /\ home' = IF pc[1] = "resolved"
             THEN [home EXCEPT !.analysis = result[1], !.loading = FALSE]
             ELSE [home EXCEPT !.error = ErrorText(error[1].message),
                               !.loading = FALSE]
  /\ pc' = [pc EXCEPT ![1] = "settled"]
  /\ UNCHANGED <<input, ast, pos, detectedFeatures, featureSnippets, result,
                 error>>

\* handleClear
HandleClear ==
  /\ Idle
  /\ home' = [home EXCEPT !.code = "", !.analysis = None, !.error = None]
  /\ UNCHANGED <<input, pc, ast, pos, detectedFeatures, featureSnippets,
                 result, error>>

NextPage ==
  \/ SetCode
  \/ HandleAnalyze
  \/ HandleClear
  \/ CheckHashbang(1)
  \/ Parse(1)
  \/ ParseFails(1)
  \/ Visit(1)
  \/ Return(1)
  \/ AwaitSettled

SpecPage == InitPage /\ [][NextPage]_vars

\* The step Return(1) as the change of pc alone: Return is the one action
\* that takes pc[1] from "traverse" to "resolved", and it is enabled exactly
\* when traverse() has returned.
Returns ==
  /\ pc[1] = "traverse"
  /\ pos[1] = Len(ast[1])
  /\ pc' = [pc EXCEPT ![1] = "resolved"]

\* A handler that has started runs to its end: the call of analyzeCode is
\* synchronous, and the microtask that resumes handleAnalyze always runs.
SpecPageFair ==
  /\ SpecPage
  /\ WF_vars(CheckHashbang(1))
  /\ WF_vars(Parse(1))
  /\ WF_vars(ParseFails(1))
  /\ WF_vars(Visit(1))
  /\ WF_pc(Returns)
  /\ WF_vars(AwaitSettled)

----------------------------------------------------------------------------
(* What the claims speak about.                                            *)

Resolved(c) == pc[c] = "resolved"

Rejected(c) == pc[c] = "rejected"

\* The elements of a sequence.
Range(s) == {s[i] : i \in 1..Len(s)}

\* The DetectedFeature entries of call c's result that are the catalogue
\* entry of key.
FeaturesFor(c, key) ==
  {f \in Range(result[c].features) :
     key \in FeatureKeys /\ f.feature = featureMap[key].feature}

\* key is among the detected features of call c's result.
Detected(c, key) == FeaturesFor(c, key) # {}

\* The evidence the result lists for key.
EvidenceFor(c, key) ==
  UNION {Range(f.codeSnippets) : f \in FeaturesFor(c, key)}

\* The nodes of call c's tree.
NodesOf(c) == Range(input[c].ast)

\* The evidence of node's span in call c's text.
EvidenceOfNode(c, node) == extractSnippet(input[c].code, node.start, node.end)

\* s holds no value twice.
NoDuplicates(s) == \A i, j \in 1..Len(s) : i # j => s[i] # s[j]

\* C1: in every result, the evidence of each detected feature lists no
\* evidence twice: a span submitted again for the same key is absorbed.
C1_EvidenceIsASet ==
  \A c \in Calls : Resolved(c) =>
    \A i \in 1..Len(result[c].features) :
      NoDuplicates(result[c].features[i].codeSnippets)

\* C2: an await expression with a function-like scope anywhere on its scope
\* chain, its own scope included, leaves no top-level-await evidence.
C2_AwaitInFunctionNotTopLevel ==
  \A c \in Calls : Resolved(c) =>
    \A node \in NodesOf(c) :
      (/\ node.type = "AwaitExpression"
       /\ \E i \in 1..Len(node.scopes) : node.scopes[i] \in FunctionBlockTypes)
      => EvidenceOfNode(c, node) \notin EvidenceFor(c, "top-level-await")

\* The text of a slot value in front of its closing "+" or "*".
NumericPrefix(version) == SubSeq(version, 1, Len(version) - 1)

\* The slot value states a version number.
CarriesNumber(version) == Len(version) > 0 /\ isDigit(SubSeq(version, 1, 1))

\* C3: a slot of minimumVersions that is not "No" is "<m>+" for the largest
\* number m that the detected features' records state for that slot.
C3_MinimumIsMaximum ==
  \A c \in Calls : Resolved(c) =>
    \A b \in Range(browsers) :
      LET stated == {f.support[b] : f \in {g \in Range(result[c].features) :
                                             CarriesNumber(g.support[b])}}
      IN result[c].minimumVersions[b] # "No" =>
           \E top \in stated :
             /\ result[c].minimumVersions[b] = NumericPrefix(top) \o "+"
             /\ \A v \in stated :
                  ~Greater(parseFloat(NumericPrefix(v)),
                           parseFloat(NumericPrefix(top)))

\* A result in which two detected features state different numbers for
\* chrome, one of them with a fraction for safari.
C3_Witness ==
  \E c \in Calls :
    /\ Resolved(c)
    /\ result[c].minimumVersions.chrome # "No"
    /\ \E f, g \in Range(result[c].features) :
         /\ CarriesNumber(f.support.chrome) /\ CarriesNumber(g.support.chrome)
         /\ f.support.chrome # g.support.chrome
    /\ includes(result[c].minimumVersions.safari, ".")

\* C4: a slot of minimumVersions that names a version means that browser
\* supports every detected feature: none of them has "No" in that slot.
C4_MinimumSupportsEveryFeature ==
  \A c \in Calls : Resolved(c) =>
    \A b \in Range(browsers) :
      result[c].minimumVersions[b] # "No" =>
        \A f \in Range(result[c].features) : f.support[b] # "No"

\* C5: a call ends with a result or with an error, never both; when the
\* parser fails it ends with no result, whatever was recorded before, and
\* with the message "Failed to parse JavaScript code: " and the parser's.
C5_ParseFailureIsTheOnlyError ==
  \A c \in Calls :
    /\ ~(result[c] # None /\ error[c] # None)
    /\ ~input[c].ok => result[c] = None /\ ~Resolved(c)
    /\ Rejected(c) =>
         /\ ~input[c].ok
         /\ error[c] = [message |-> "Failed to parse JavaScript code: "
                                      \o input[c].message]
    /\ Resolved(c) => result[c] # None /\ error[c] = None
    /\ ~Resolved(c) /\ ~Rejected(c) => result[c] = None /\ error[c] = None

\* A call rejected after the hashbang was recorded.
C5_Witness ==
  \E c \in Calls :
    /\ Rejected(c)
    /\ detectedFeatures[c] = <<"hashbang">>
    /\ result[c] = None

\* The recorded keys that have a catalogue entry, in order.
KnownKeys(c) == SelectSeq(detectedFeatures[c], LAMBDA k : k \in FeatureKeys)

FeatureNames(r) == [i \in 1..Len(r.features) |-> r.features[i].feature]

FunctionNodes(c) == {n \in NodesOf(c) : n.type \in FunctionBlockTypes}

\* C8: a function-like node flagged async has async-await detected, one
\* flagged generator has generator-function detected.
C8_AsyncAndGeneratorFlags ==
  \A c \in Calls : Resolved(c) =>
    \A node \in FunctionNodes(c) :
      /\ node.async => Detected(c, "async-await")
      /\ node.generator => Detected(c, "generator-function")

\* C9: a function-like node with a default-value parameter has
\* default-parameters detected, one with a rest parameter rest-parameters.
C9_DefaultAndRestParameters ==
  \A c \in Calls : Resolved(c) =>
    \A node \in FunctionNodes(c) :
      /\ someParam(node, "AssignmentPattern") => Detected(c, "default-parameters")
      /\ someParam(node, "RestElement") => Detected(c, "rest-parameters")

\* C10: every detected feature of a result has at least one evidence entry.
C10_EveryFeatureHasEvidence ==
  \A c \in Calls : Resolved(c) =>
    \A f \in Range(result[c].features) : Len(f.codeSnippets) >= 1

\* The await expressions of call c's tree that have no function-like scope
\* on their scope chain.
TopLevelAwaits(c) ==
  {n \in NodesOf(c) :
     /\ n.type = "AwaitExpression"
     /\ \A i \in 1..Len(n.scopes) : n.scopes[i] \notin FunctionBlockTypes}

\* C11: an await expression with no function-like scope anywhere on its
\* scope chain has both async-await and top-level-await detected, each with
\* the evidence of the await expression's span.
C11_TopLevelAwaitDetected ==
  \A c \in Calls : Resolved(c) =>
    \A node \in TopLevelAwaits(c) :
      /\ EvidenceOfNode(c, node) \in EvidenceFor(c, "async-await")
      /\ EvidenceOfNode(c, node) \in EvidenceFor(c, "top-level-await")

\* The result for the text "await g();" lists both features.
C11_Witness ==
  \E c \in Calls :
    /\ Resolved(c)
    /\ input[c].code = "await g();"
    /\ TopLevelAwaits(c) # {}
    /\ Detected(c, "async-await") /\ Detected(c, "top-level-await")

\* The calls of call c's tree whose callee is a member named methodName.
MemberCalls(c, methodName) ==
  {n \in NodesOf(c) :
     /\ n.type = "CallExpression"
     /\ isType(n.callee, "MemberExpression")
     /\ isType(n.callee.property, "Identifier")
     /\ n.callee.property.name = methodName}

\* Every key of keys is detected with the evidence of node's span.
AllDetectedAt(c, node, keys) ==
  \A key \in keys : EvidenceOfNode(c, node) \in EvidenceFor(c, key)

\* C12: whatever the receiver, a member call named at yields array-at,
\* string-at and typedarray-at, one named with yields array-with and
\* typedarray-with, one named includes yields array-includes and
\* string-includes.
C12_AmbiguousMethodsOverReported ==
  \A c \in Calls : Resolved(c) =>
    /\ \A node \in MemberCalls(c, "at") :
         AllDetectedAt(c, node, {"array-at", "string-at", "typedarray-at"})
    /\ \A node \in MemberCalls(c, "with") :
         AllDetectedAt(c, node, {"array-with", "typedarray-with"})
    /\ \A node \in MemberCalls(c, "includes") :
         AllDetectedAt(c, node, {"array-includes", "string-includes"})

\* A result for a call of at on an identifier and a call of includes on an
\* array literal.
C12_Witness ==
  \E c \in Calls :
    /\ Resolved(c)
    /\ MemberCalls(c, "at") # {}
    /\ \E node \in MemberCalls(c, "includes") :
         ~isType(node.callee.object, "Identifier")
    /\ Detected(c, "typedarray-at") /\ Detected(c, "string-includes")

\* The variable declarations of call c's tree with the keyword kind.
Declarations(c, kind) ==
  {n \in NodesOf(c) : n.type = "VariableDeclaration" /\ n.kind = kind}

\* The keys the VariableDeclaration visitor records for node when nothing
\* was recorded before.
DeclarationKeys(c, node) ==
  VariableDeclaration(Acc(<<>>, <<>>), input[c].code, node).detectedFeatures

\* C13: a variable declaration records const-declaration alone for const,
\* let-declaration alone for let and nothing for var, so that each of the
\* two is detected exactly when the tree has such a declaration; the text
\* "const x = 1;" yields the one feature const-declaration and
\* totalFeatures 1.
C13_ConstAndLetExclusive ==
  \A c \in Calls : Resolved(c) =>
    /\ \A node \in Declarations(c, "const") :
         DeclarationKeys(c, node) = <<"const-declaration">>
    /\ \A node \in Declarations(c, "let") :
         DeclarationKeys(c, node) = <<"let-declaration">>
    /\ \A node \in Declarations(c, "var") : DeclarationKeys(c, node) = <<>>
    /\ Detected(c, "const-declaration") <=> Declarations(c, "const") # {}
    /\ Detected(c, "let-declaration") <=> Declarations(c, "let") # {}
    /\ input[c].code = "const x = 1;" =>
         /\ FeatureNames(result[c]) =
              <<featureMap["const-declaration"].feature>>
         /\ result[c].summary.totalFeatures = 1

\* The result for the text "const x = 1;".
C13_Witness ==
  \E c \in Calls :
    /\ Resolved(c)
    /\ input[c].code = "const x = 1;"
    /\ Detected(c, "const-declaration")

\* C14: legacySupport is true exactly when no detected feature has "No" in
\* its ie slot; a slot with the marker "*" does not make it false, and it
\* is true when nothing is detected.
C14_LegacySupport ==
  \A c \in Calls : Resolved(c) =>
    /\ result[c].summary.legacySupport <=>
         \A f \in Range(result[c].features) : f.support.ie # "No"
    /\ result[c].features = <<>> => result[c].summary.legacySupport

\* A result whose features state an ie version, one of them with the marker
\* "*", and whose legacySupport is true.
C14_Witness ==
  \E c \in Calls :
    /\ Resolved(c)
    /\ \E f \in Range(result[c].features) : includes(f.support.ie, "*")
    /\ \E f \in Range(result[c].features) : ~includes(f.support.ie, "*")
    /\ result[c].summary.legacySupport

\* The detected features of a result that count as modern.
ModernOnly(r) ==
  {i \in 1..Len(r.features) :
     r.features[i].support.ie = "No" \/ includes(r.features[i].support.ie, "*")}

\* C15: totalFeatures is the number of detected features and modernFeatures
\* the number of those whose ie slot is "No" or contains "*"; so
\* 0 <= modernFeatures <= totalFeatures, and legacySupport false implies
\* modernFeatures >= 1.
C15_SummaryCounts ==
  \A c \in Calls : Resolved(c) =>
    LET r == result[c]
    IN /\ r.summary.totalFeatures = Len(r.features)
       /\ r.summary.modernFeatures = Cardinality(ModernOnly(r))
       /\ 0 <= r.summary.modernFeatures
       /\ r.summary.modernFeatures <= r.summary.totalFeatures
       /\ ~r.summary.legacySupport => r.summary.modernFeatures >= 1

\* A result that counts a feature with the marker "*" and one with "No" as
\* modern and a third feature as not modern.
C15_Witness ==
  \E c \in Calls :
    /\ Resolved(c)
    /\ \E f \in Range(result[c].features) : f.support.ie = "No"
    /\ \E f \in Range(result[c].features) : includes(f.support.ie, "*")
    /\ result[c].summary.modernFeatures >= 2
    /\ result[c].summary.modernFeatures < result[c].summary.totalFeatures

\* s is the beginning of t.
IsPrefix(s, t) == Len(s) <= Len(t) /\ SubSeq(t, 1, Len(s)) = s

\* The keys the visitor of node records, in order, when nothing was recorded
\* before.
KeysOfNode(c, node) ==
  VisitNode(Acc(<<>>, <<>>), input[c].code, node).detectedFeatures

\* Every attempt to record a key that call c has made once its first n nodes
\* are visited, in order: the hashbang check, then the visitors.
RECURSIVE Attempts(_, _)
Attempts(c, n) ==
  IF n = 0
  THEN IF startsWith(input[c].code, "#!") THEN <<"hashbang">> ELSE <<>>
  ELSE Attempts(c, n - 1) \o KeysOfNode(c, input[c].ast[n])

\* The first occurrence of each element of s, in order.
FirstOccurrences(s) ==
  LET firsts == SelectSeq([i \in 1..Len(s) |-> i],
                          LAMBDA i : \A j \in 1..(i - 1) : s[j] # s[i])
  IN [k \in 1..Len(firsts) |-> s[firsts[k]]]

\* C16: at every point of the analysis the recorded keys are the keys
\* attempted so far, each once, in the order of their first attempt
\* (hashbang check first, then the nodes in visiting order), so that a key
\* matched again neither moves nor is listed twice; the result lists the
\* catalogue entries of the recorded keys in that order.
C16_FirstDetectionOrder ==
  \A c \in Calls :
    /\ detectedFeatures[c] =
         IF pc[c] = "start" THEN <<>>
         ELSE FirstOccurrences(Attempts(c, pos[c]))
    /\ Resolved(c) =>
         /\ FeatureNames(result[c]) =
              [i \in 1..Len(detectedFeatures[c]) |->
                 featureMap[detectedFeatures[c][i]].feature]
         /\ NoDuplicates(FeatureNames(result[c]))

\* A result that lists hashbang first and const-declaration before
\* arrow-function, which the catalogue lists first, and in which a feature
\* matched more than once is listed once.
C16_Witness ==
  \E c \in Calls :
    /\ Resolved(c)
    /\ IsPrefix(<<"hashbang", "const-declaration", "arrow-function">>,
                detectedFeatures[c])
    /\ FeatureNames(result[c])[1] = featureMap["hashbang"].feature
    /\ \E f \in Range(result[c].features) : Len(f.codeSnippets) >= 2
    /\ NoDuplicates(FeatureNames(result[c]))

\* C17: with the nodes of a tree visited in any order, the result has the
\* same set of detected features, the same summary and the same
\* minimumVersions as with the nodes visited in the traversal's order.
C17_OrderIndependent ==
  \A c \in Calls : Resolved(c) =>
    LET r == analyzeCode(input[c])
    IN /\ Range(FeatureNames(result[c])) = Range(FeatureNames(r))
       /\ result[c].summary = r.summary
       /\ result[c].minimumVersions = r.minimumVersions

\* A result of nodes visited in another order than the traversal's: it lists
\* the same features in another order.
C17_Witness ==
  \E c \in Calls :
    /\ Resolved(c)
    /\ FeatureNames(result[c]) # FeatureNames(analyzeCode(input[c]))
    /\ Range(FeatureNames(result[c]))
         = Range(FeatureNames(analyzeCode(input[c])))
    /\ result[c].minimumVersions.chrome # "No"

\* C18: with two calls in progress at once, interleaved in any way, each
\* call that returns returns what it returns when run alone, and each call
\* the parser rejects fails as it does alone; the accumulators of a call
\* hold only what its own text made it record.
C18_CallsIsolated ==
  \A c \in Calls :
    /\ Resolved(c) => result[c] = analyzeCode(input[c])
    /\ Rejected(c) =>
         error[c] = [message |-> FailureMessage(input[c].message)]
    /\ \A d \in Calls :
         (c # d /\ ~input[d].ok /\ Resolved(c)) => result[d] = None

\* Two calls with different texts have both returned, each with features
\* the other has not.
C18_Witness ==
  /\ Calls = {1, 2}
  /\ Resolved(1) /\ Resolved(2)
  /\ input[1].code # input[2].code
  /\ Range(FeatureNames(result[1])) \ Range(FeatureNames(result[2])) # {}
  /\ Range(FeatureNames(result[2])) \ Range(FeatureNames(result[1])) # {}

\* The names the README gives as detected Web API constructors, with the key
\* of each.
WebApiConstructors ==
  "URL" :> "url-constructor" @@ "URLSearchParams" :> "urlsearchparams"
  @@ "AbortController" :> "abortcontroller"
  @@ "IntersectionObserver" :> "intersectionobserver"
  @@ "MutationObserver" :> "mutationobserver"
  @@ "ResizeObserver" :> "resizeobserver"

\* The construction expressions `new X(...)` of call c's tree with X one of
\* these names.
WebApiConstructions(c) ==
  {n \in NodesOf(c) :
     /\ n.type = "NewExpression"
     /\ isType(n.callee, "Identifier")
     /\ n.callee.name \in DOMAIN WebApiConstructors}

\* C19: a construction expression `new X(...)` with X one of URL,
\* URLSearchParams, AbortController, IntersectionObserver, MutationObserver
\* and ResizeObserver has the feature of X detected.
C19_WebApiConstructorsDetected ==
  \A c \in Calls : Resolved(c) =>
    \A node \in WebApiConstructions(c) :
      Detected(c, WebApiConstructors[node.callee.name])

\* The identifiers the visitors compare a callee or an object with.
ProbeNames ==
  {
   "AbortController", "AggregateError", "Array", "Atomics",
   "BigInt64Array", "BigUint64Array", "Error", "FinalizationRegistry",
   "IntersectionObserver", "Intl", "JSON", "Map", "MutationObserver",
   "Object", "Promise", "Proxy", "Reflect", "ResizeObserver", "Set",
   "SharedArrayBuffer", "Symbol", "URL", "URLSearchParams", "WeakMap",
   "WeakRef", "WeakSet", "crypto", "fetch", "globalThis", "import",
   "indexedDB", "localStorage", "performance", "queueMicrotask",
   "reportError", "sessionStorage", "structuredClone"}

\* The identifiers they compare a property with.
ProbeProperties ==
  {
   "ListFormat", "RelativeTimeFormat", "allSettled", "any", "assign", "at",
   "endsWith", "entries", "find", "findIndex", "findLast", "findLastIndex",
   "flat", "flatMap", "from", "fromAsync", "fromEntries",
   "getRandomValues", "groupBy", "hasOwn", "includes", "isWellFormed",
   "keys", "matchAll", "meta", "now", "padEnd", "padStart", "parse",
   "randomUUID", "repeat", "replaceAll", "startsWith", "toReversed",
   "toSorted", "toSpliced", "toWellFormed", "trimEnd", "trimStart",
   "values", "with"}

\* The types of the nodes whose visitor reads no field.
ProbePlainTypes ==
  {"TemplateLiteral", "ObjectPattern", "ArrayPattern", "SpreadElement",
   "RestElement", "ClassDeclaration", "ClassExpression", "PrivateName",
   "OptionalMemberExpression", "OptionalCallExpression", "ObjectMethod",
   "ExportNamedDeclaration", "ExportDefaultDeclaration", "Import",
   "BigIntLiteral", "ClassPrivateMethod"}

\* The callees a probe may have: an identifier, or a member of an
\* identifier.
ProbeCallees ==
  {Ident(n) : n \in ProbeNames}
    \cup {Member(Ident(n), Ident(p)) : n \in ProbeNames, p \in ProbeProperties}

\* Nodes on which every condition of every visitor is true for one of them:
\* each field a visitor reads takes each value the visitor compares it with.
ProbeNodes ==
  {Node(type, 0, 0, NoProps) : type \in ProbePlainTypes}
    \cup {Node(type, 0, 0, [async |-> a, generator |-> g, params |-> p]) :
            type \in {"ArrowFunctionExpression", "FunctionDeclaration",
                      "FunctionExpression"},
            a \in BOOLEAN, g \in BOOLEAN,
            p \in {<<>>, <<"AssignmentPattern", "RestElement">>}}
    \cup {Node("VariableDeclaration", 0, 0, [kind |-> k]) :
            k \in {"const", "let", "var"}}
    \cup {Node("AwaitExpression", 0, 0, [scopes |-> s]) :
            s \in {<<"Program">>, <<"FunctionDeclaration", "Program">>}}
    \cup {Node(type, 0, 0, [callee |-> callee, arguments |-> arguments]) :
            type \in {"NewExpression", "CallExpression"},
            callee \in ProbeCallees,
            arguments \in {<<>>, <<"StringLiteral", "ObjectExpression",
                                  "Identifier">>}}
    \cup {Node("ClassProperty", 0, 0, [static |-> b]) : b \in BOOLEAN}
    \cup {Node("ForOfStatement", 0, 0, [await |-> b]) : b \in BOOLEAN}
    \cup {Node(type, 0, 0, [operator |-> o]) :
            type \in {"LogicalExpression", "AssignmentExpression"},
            o \in {"??", "&&=", "||=", "??=", "||", "="}}
    \cup {Node("ObjectProperty", 0, 0, [computed |-> b, shorthand |-> d]) :
            b \in BOOLEAN, d \in BOOLEAN}
    \cup {Node("ImportDeclaration", 0, 0, [attributes |-> a, assertions |-> b]) :
            a \in {0, 1}, b \in {0, 1}}
    \cup {Node("NumericLiteral", 0, 0, [raw |-> r]) : r \in {"1", "1_000"}}
    \cup {Node("MemberExpression", 0, 0, [object |-> Ident(n),
                                          property |-> Ident(p)]) :
            n \in ProbeNames, p \in {"meta", "k"}}
    \cup {Node("RegExpLiteral", 0, 0, [flags |-> f, pattern |-> p]) :
            f \in {"", "sdv"}, p \in {"a", "(?<=a)(?<!b)\\p{L}"}}

\* The keys some classifier rule records: hashbang by the check of the text,
\* the others by the visitor of some node.
DetectableKeys ==
  {"hashbang"}
    \cup UNION {Range(VisitNode(Acc(<<>>, <<>>), "", n).detectedFeatures) :
                  n \in ProbeNodes}

\* C20: every key of the catalogue is detectable: a key that a result does
\* not list is one that some classifier rule records, so that another input
\* has it among its detected features.
C20_EveryCatalogueKeyDetectable ==
  \A c \in Calls : Resolved(c) =>
    \A key \in FeatureKeys : Detected(c, key) \/ key \in DetectableKeys

\* The text of call c begins with the two characters "#!".
BeginsWithHashbang(c) ==
  Len(input[c].code) >= 2 /\ SubSeq(input[c].code, 1, 2) = "#!"

\* A snippet that marks the span [0, 2) of a text: its first two characters
\* on line 1.
MarksHashbang(snippet) ==
  /\ snippet.matchLine = 1
  /\ snippet.matchCol = 0
  /\ snippet.matchLength = 2
  /\ snippet.matchText = "#!"
  /\ snippet.startLine = 1

\* C21: a text that begins with "#!" has 'hashbang' recorded before the tree
\* is walked, and when it parses the result lists 'hashbang' with exactly one
\* piece of evidence, that of the span [0, 2) (line 1, column 0, length 2),
\* whatever nodes the tree holds; a text that does not begin with "#!" never
\* has 'hashbang' recorded or listed.
C21_HashbangDetected ==
  \A c \in Calls :
    /\ pc[c] # "start" =>
         (BeginsWithHashbang(c) <=> "hashbang" \in Range(detectedFeatures[c]))
    /\ pc[c] = "parse" /\ BeginsWithHashbang(c) =>
         detectedFeatures[c] = <<"hashbang">>
    /\ Resolved(c) =>
         /\ BeginsWithHashbang(c) <=> Detected(c, "hashbang")
         /\ BeginsWithHashbang(c) =>
              /\ Cardinality(FeaturesFor(c, "hashbang")) = 1
              /\ \A f \in FeaturesFor(c, "hashbang") :
                   /\ Len(f.codeSnippets) = 1
                   /\ MarksHashbang(f.codeSnippets[1])

\* A resolved call whose text begins with "#!", whose tree holds nodes that
\* record other features, and whose result lists the hashbang.
C21_Witness ==
  \E c \in Calls :
    /\ Resolved(c)
    /\ BeginsWithHashbang(c)
    /\ Len(input[c].ast) > 1
    /\ Len(result[c].features) > 1
    /\ Detected(c, "hashbang")

\* The lines of a text: the stretches between its newlines.
LinesOf(code) == split(code)

\* The length of the first k lines of a text, each counted with its newline.
RECURSIVE CumulativeLength(_, _)
CumulativeLength(lines, k) ==
  IF k = 0 THEN 0 ELSE CumulativeLength(lines, k - 1) + Len(lines[k]) + 1

\* The 1-based number of the first line whose cumulative length exceeds
\* offset.
LineAt(code, offset) ==
  CHOOSE k \in 1..Len(LinesOf(code)) :
    /\ CumulativeLength(LinesOf(code), k) > offset
    /\ \A j \in 1..(k - 1) : CumulativeLength(LinesOf(code), j) <= offset

\* The offset of the first character of line k.
LineStart(code, k) == CumulativeLength(LinesOf(code), k - 1)

\* The call of extractSnippet has returned.
Returned(c) == pc[c] = "returned"

\* The locals of extractSnippet after its loop.
LoopLocals(c) ==
  FindLines(split(input[c].code), input[c].start, input[c].end, 0,
            [currentPos |-> 0, startLine |-> 0, endLine |-> 0,
             startCol |-> 0])

\* C22: for every span 0 <= start <= end <= length, matchLine is the number
\* of the first line whose cumulative length (line length plus one per line)
\* exceeds start, matchCol is start minus the offset of that line's first
\* character, and the end line the loop computes is the first line whose
\* cumulative length exceeds end.
C22_MatchPosition ==
  \A c \in Calls : Returned(c) =>
    /\ result[c].matchLine = LineAt(input[c].code, input[c].start)
    /\ result[c].matchCol =
         input[c].start - LineStart(input[c].code, result[c].matchLine)
    /\ LoopLocals(c).startLine = result[c].matchLine
    /\ LoopLocals(c).endLine = LineAt(input[c].code, input[c].end)

\* A span that starts on the newline that ends line 2 and ends inside line 4.
C22_Witness ==
  \E c \in Calls :
    /\ Returned(c)
    /\ input[c].code = "ab\nab\n\nab\nab"
    /\ input[c].start = 5
    /\ input[c].end = 8
    /\ result[c].matchLine = 2
    /\ result[c].matchCol = 2

\* The first and the last line, 1-based, of the context window of a span:
\* two lines before the line the span starts on through two lines after the
\* line it ends on, clipped to the text.
WindowFirst(code, start) == Max(1, LineAt(code, start) - 2)

WindowLast(code, end) == Min(Len(LinesOf(code)), LineAt(code, end) + 2)

\* C23: the context window is exactly the lines (match start line - 2)
\* through (match end line + 2), clipped to the first and last line of the
\* text; startLine is the 1-based number of the window's first line and text
\* is those lines joined by newlines.
C23_ContextWindow ==
  \A c \in Calls : Returned(c) =>
    LET first == WindowFirst(input[c].code, input[c].start)
        last == WindowLast(input[c].code, input[c].end)
    IN /\ result[c].startLine = first
       /\ result[c].text = join(SubSeq(LinesOf(input[c].code), first, last))
       /\ Len(LinesOf(result[c].text)) = last - first + 1

\* A match on line 3 of six lines: the window is lines 1 to 5 and leaves out
\* line 6.
C23_Witness ==
  \E c \in Calls :
    /\ Returned(c)
    /\ input[c].code = "ab\n\nab\nab\n\nab"
    /\ input[c].start = 4
    /\ input[c].end = 6
    /\ result[c].startLine = 1
    /\ result[c].text = "ab\n\nab\nab\n"

\* C28: for every span 0 <= start <= end <= length, the empty span and the
\* offsets on a line boundary included, extractSnippet returns, matchLength
\* is end - start and the length of matchText, matchLine is at least 1 and
\* lies in the window (startLine <= matchLine <= startLine + number of
\* context lines - 1), and 0 <= matchCol <= length of the match line.
C28_SnippetWellFormed ==
  \A c \in Calls :
    /\ pc[c] = "start" =>
         DOMAIN extractSnippet(input[c].code, input[c].start, input[c].end)
           = {"text", "startLine", "matchLine", "matchCol", "matchLength",
              "matchText"}
    /\ Returned(c) =>
         /\ result[c].matchLength = input[c].end - input[c].start
         /\ result[c].matchLength = Len(result[c].matchText)
         /\ result[c].matchText =
              SubSeq(input[c].code, input[c].start + 1, input[c].end)
         /\ result[c].matchLine >= 1
         /\ result[c].startLine <= result[c].matchLine
         /\ result[c].matchLine <=
              result[c].startLine + Len(LinesOf(result[c].text)) - 1
         /\ result[c].matchCol >= 0
         /\ result[c].matchCol <=
              Len(LinesOf(input[c].code)[result[c].matchLine])

\* An empty span at the very end of a text that ends with a newline: the
\* match is on the empty last line.
C28_Witness ==
  \E c \in Calls :
    /\ Returned(c)
    /\ input[c].code = "ab\n"
    /\ input[c].start = 3
    /\ input[c].end = 3
    /\ result[c].matchLine = 2
    /\ result[c].matchCol = 0
    /\ result[c].matchText = ""

\* A slot value that contributes to the minimum version: it is neither "No"
\* nor "No*" and states a number.
Contributes(version) ==
  version \notin {"No", "No*"} /\ CarriesNumber(version)

\* The features of call c's result whose value for browser contributes.
Contributors(c, browser) ==
  {f \in Range(result[c].features) : Contributes(f.support[browser])}

\* The catalogue keys with a "*" marker in some slot.
MarkedKeys ==
  {key \in FeatureKeys :
     \E b \in Range(browsers) : includes(featureMap[key].support[b], "*")}

\* C24: a slot of minimumVersions is "No" exactly when no detected feature
\* has a contributing value for it; a value of "No" or "No*" never
\* contributes, a value such as "11*" contributes its number without the
\* marker, and the slot is that number followed by "+", for the largest
\* contributing number.  The same holds of the computation applied to any one
\* catalogue entry that has a marker.
C24_ContributingVersions ==
  \A c \in Calls : Resolved(c) =>
    \A b \in Range(browsers) :
      /\ result[c].minimumVersions[b] = "No" <=> Contributors(c, b) = {}
      /\ ~includes(result[c].minimumVersions[b], "*")
      /\ Contributors(c, b) # {} =>
           \E top \in Contributors(c, b) :
             /\ result[c].minimumVersions[b]
                  = NumericPrefix(top.support[b]) \o "+"
             /\ \A f \in Contributors(c, b) :
                  ~Greater(parseFloat(NumericPrefix(f.support[b])),
                           parseFloat(NumericPrefix(top.support[b])))
      /\ \A key \in MarkedKeys :
           minimumVersion(<<featureMap[key]>>, b)
             = IF Contributes(featureMap[key].support[b])
               THEN NumericPrefix(featureMap[key].support[b]) \o "+"
               ELSE "No"

\* A result with a feature that states "No*" for firefox next to one that
\* states a number, and whose only contributing value for ie is "11*".
C24_Witness ==
  \E c \in Calls :
    /\ Resolved(c)
    /\ \E f \in Range(result[c].features) : f.support.firefox = "No*"
    /\ result[c].minimumVersions.firefox \notin {"No", "No*"}
    /\ \E f \in Range(result[c].features) : f.support.ie = "No"
    /\ \A f \in Contributors(c, "ie") : f.support.ie = "11*"
    /\ result[c].minimumVersions.ie = "11+"

\* The construction expressions `new X(...)` of call c's tree.
Constructions(c) == {n \in NodesOf(c) : n.type = "NewExpression"}

\* A construction of the identifier Error with a second argument that is an
\* object literal.
ErrorWithOptions(node) ==
  /\ node.callee.type = "Identifier"
  /\ node.callee.name = "Error"
  /\ Len(node.arguments) >= 2
  /\ node.arguments[2] = "ObjectExpression"

\* The other built-in names the visitor of construction expressions knows,
\* with the key of each.
BuiltinConstructors ==
  "Promise" :> "promise" @@ "Map" :> "map-object" @@ "Set" :> "set-object"
  @@ "WeakMap" :> "weakmap" @@ "WeakSet" :> "weakset"
  @@ "WeakRef" :> "weakref"
  @@ "FinalizationRegistry" :> "finalizationregistry"
  @@ "Proxy" :> "proxy" @@ "SharedArrayBuffer" :> "sharedarraybuffer"
  @@ "BigInt64Array" :> "bigint64array"
  @@ "BigUint64Array" :> "biguint64array"
  @@ "AggregateError" :> "aggregate-error"

\* C25: 'error-cause' is detected exactly when the tree holds a construction
\* of the identifier Error with a second argument that is an object literal,
\* with the span of every such construction as evidence, whatever the object
\* literal holds; a construction of another built-in name records the one
\* key of that name, and different names have different keys.
C25_ErrorCause ==
  \A c \in Calls : Resolved(c) =>
    /\ Detected(c, "error-cause")
         <=> \E node \in Constructions(c) : ErrorWithOptions(node)
    /\ EvidenceFor(c, "error-cause")
         = {EvidenceOfNode(c, node) :
              node \in {n \in Constructions(c) : ErrorWithOptions(n)}}
    /\ \A node \in Constructions(c) :
         /\ ErrorWithOptions(node) => KeysOfNode(c, node) = <<"error-cause">>
         /\ /\ node.callee.type = "Identifier"
            /\ node.callee.name \in DOMAIN BuiltinConstructors
            => /\ KeysOfNode(c, node)
                    = <<BuiltinConstructors[node.callee.name]>>
               /\ Detected(c, BuiltinConstructors[node.callee.name])
    /\ \A name, other \in DOMAIN BuiltinConstructors :
         BuiltinConstructors[name] = BuiltinConstructors[other]
           => name = other

\* A result with 'error-cause' for `new Error(m, {})` and for
\* `new Error(m, { code: 1 })`, two object literals without a cause.
C25_Witness ==
  \E c \in Calls :
    /\ Resolved(c)
    /\ input[c].code = "new Error(m, {});\nnew Error(m, { code: 1 });"
    /\ Cardinality(EvidenceFor(c, "error-cause")) = 2

\* A result without 'error-cause' for constructions that pass a cause in
\* a variable or construct TypeError.
C25_WitnessNot ==
  \E c \in Calls :
    /\ Resolved(c)
    /\ input[c].code = "new Error(m, o);\nnew TypeError(m, { cause: e });"
    /\ ~Detected(c, "error-cause")

\* The regular expression literals of call c's tree.
RegExpLiterals(c) == {n \in NodesOf(c) : n.type = "RegExpLiteral"}

\* The keys that have the span of node among their evidence in call c's
\* result.
KeysWithEvidence(c, node) ==
  {key \in FeatureKeys : EvidenceOfNode(c, node) \in EvidenceFor(c, key)}

\* C26: a regular expression literal that is evidence of 'regex-lookbehind'
\* is evidence of 'regex-named-groups' as well, and a result that lists
\* 'regex-lookbehind' lists 'regex-named-groups'.
C26_LookbehindImpliesNamedGroups ==
  \A c \in Calls : Resolved(c) =>
    /\ Detected(c, "regex-lookbehind") => Detected(c, "regex-named-groups")
    /\ \A node \in RegExpLiterals(c) :
         /\ "regex-lookbehind" \in KeysWithEvidence(c, node)
              => "regex-named-groups" \in KeysWithEvidence(c, node)
         /\ "regex-lookbehind" \in Range(KeysOfNode(c, node))
              <=> \/ includes(node.pattern, "(?<=")
                  \/ includes(node.pattern, "(?<!")

\* A result for the literals /(?<=a)b/ and /(?<y>a)/: the first, which has no
\* named group, is evidence of both keys, the second of 'regex-named-groups'
\* only.
C26_Witness ==
  \E c \in Calls :
    /\ Resolved(c)
    /\ input[c].code = "/(?<=a)b/;\n/(?<y>a)/;"
    /\ Cardinality(EvidenceFor(c, "regex-lookbehind")) = 1
    /\ Cardinality(EvidenceFor(c, "regex-named-groups")) = 2
    /\ EvidenceFor(c, "regex-lookbehind")
         \subseteq EvidenceFor(c, "regex-named-groups")

\* The reverse: a result with 'regex-named-groups' and without
\* 'regex-lookbehind', for the literal /(?<y>a)/.
C26_WitnessReverse ==
  \E c \in Calls :
    /\ Resolved(c)
    /\ input[c].code = "/(?<y>a)/;"
    /\ Detected(c, "regex-named-groups")
    /\ ~Detected(c, "regex-lookbehind")

\* The result of an analysis that detected nothing.
EmptyResult ==
  [features |-> <<>>,
   summary |-> [totalFeatures |-> 0, modernFeatures |-> 0,
                legacySupport |-> TRUE],
   minimumVersions |-> [chrome |-> "No", firefox |-> "No", safari |-> "No",
                        edge |-> "No", ie |-> "No"]]

\* The tree of call c holds nothing but var declarations of plain numbers.
OnlyVarDeclarations(c) ==
  \A node \in NodesOf(c) :
    \/ node.type = "VariableDeclaration" /\ node.kind = "var"
    \/ node.type = "NumericLiteral" /\ ~includes(node.raw, "_")

\* C27: a text that parses and in which no feature is detected, such as one
\* of var declarations only, has the result features = [], totalFeatures 0,
\* modernFeatures 0, legacySupport true and "No" in all five slots of
\* minimumVersions.
C27_NothingDetected ==
  \A c \in Calls : Resolved(c) =>
    /\ detectedFeatures[c] = <<>> => result[c] = EmptyResult
    /\ result[c].features = <<>> => result[c] = EmptyResult
    /\ OnlyVarDeclarations(c) /\ ~BeginsWithHashbang(c)
         => detectedFeatures[c] = <<>>

\* The result of "var v = 1;" repeated on two lines.
C27_Witness ==
  \E c \in Calls :
    /\ Resolved(c)
    /\ input[c].code = "var v = 1;\nvar v = 1;"
    /\ Len(input[c].ast) = 4
    /\ result[c] = EmptyResult

\* A text of whitespace only, or empty.
Blank(text) == \A i \in 1..Len(text) : SubSeq(text, i, i) \in {" ", "\n"}

\* The step starts a call of analyzeCode.
AnalysisStarts == pc[1] # "start" /\ pc'[1] = "start"

\* The state of the call of analyzeCode is left as it is.
CallUnchanged ==
  UNCHANGED <<input, pc, ast, pos, detectedFeatures, featureSnippets, result,
              error>>

\* C29: a handleAnalyze on a text that is not blank sets loading to true and
\* error to null and starts the analysis of the text typed; an analysis is
\* started by no other step; a handleAnalyze on a blank text sets the error
\* message and leaves loading, analysis and the text unchanged, and starts
\* nothing; and whenever loading is true it is eventually false again,
\* whether analyzeCode resolves or rejects.
C29_LoadingEndsAndBlankIsRefused ==
  /\ [][/\ AnalysisStarts =>
             /\ ~Blank(home.code)
             /\ home' = [home EXCEPT !.loading = TRUE, !.error = None]
             /\ input'[1].code = home.code
        /\ HandleAnalyze /\ ~Blank(home.code) => AnalysisStarts
        /\ HandleAnalyze /\ Blank(home.code) =>
             /\ home'.error =
                  ErrorText("Please enter some JavaScript code to analyze")
             /\ home'.loading = home.loading
             /\ home'.analysis = home.analysis
             /\ home'.code = home.code
             /\ CallUnchanged]_vars
  /\ (home.loading ~> (~home.loading /\ pc[1] = "settled"))

\* A call of analyzeCode that was rejected while the page was loading.
C29_Witness ==
  /\ home.loading
  /\ pc[1] = "rejected"
  /\ home.error = None

\* The page after a handleAnalyze on the text of whitespace, with the result
\* of an earlier analysis still in place.
C29_WitnessBlank ==
  /\ home.code = " \n "
  /\ home.error = ErrorText("Please enter some JavaScript code to analyze")
  /\ ~home.loading
  /\ home.analysis # None

\* C30: the step that resumes handleAnalyze after a rejected analyzeCode sets
\* error to the message of the failure and leaves analysis unchanged; analysis
\* changes only in the step that resumes it after a resolved analyzeCode, to
\* the result, and in handleClear, to null together with code = '' and
\* error = null.
C30_AnalysisFrame ==
  [][/\ pc[1] = "rejected" /\ pc'[1] = "settled" =>
          /\ home'.error = ErrorText(error[1].message)
          /\ home'.error = ErrorText(FailureMessage(input[1].message))
          /\ home'.analysis = home.analysis
     /\ home'.analysis # home.analysis =>
          \/ /\ pc[1] = "resolved" /\ pc'[1] = "settled"
             /\ home'.analysis = result[1]
          \/ /\ HandleClear
             /\ home'.analysis = None
             /\ home'.code = ""
             /\ home'.error = None]_vars

\* The page showing the result of an earlier analysis together with the
\* message of a later, failed one.
C30_Witness ==
  /\ pc[1] = "settled"
  /\ ~home.loading
  /\ home.analysis # None
  /\ home.error = ErrorText(FailureMessage(input[1].message))
  /\ home.analysis.summary.totalFeatures = 1

====
